---- MODULE Spec2Model ----
(***************************************************************************)
(* Canvas pipeline of goblin-beat: parseCanvasData / serializeCanvasData   *)
(* (canvas-utils, shipped in canvas.ts), the static renderer               *)
(* (canvas-renderer.ts), the host adapter CanvasTransformer.textTransform  *)
(* (canvas.ts) and the payload recovery of the interactive renderer        *)
(* (canvas-graph.inline.ts).                                               *)
(*                                                                         *)
(* A JavaScript string is a sequence of atoms.  An atom is one character   *)
(* ("<", "&", "{", a digit ...), an opaque word of ordinary characters     *)
(* ("script", "ghost", "nodes") or, in renderer output, one chunk of       *)
(* template markup.  Conversions (JSON.parse, JSON.stringify, escapeHtml,  *)
(* number formatting) work atom by atom.                                   *)
(***************************************************************************)
EXTENDS Integers, Sequences, FiniteSets, TLC

(***************************************************************************)
(* Bounds of the model.                                                    *)
(***************************************************************************)
MaxNodes == 2
MaxEdges == 2

(***************************************************************************)
(* Sequence helpers.                                                       *)
(***************************************************************************)
RECURSIVE Flatten(_)
Flatten(ss) == IF ss = <<>> THEN <<>> ELSE Head(ss) \o Flatten(Tail(ss))

RECURSIVE Join(_, _)
Join(ss, sep) ==
    IF ss = <<>> THEN <<>>
    ELSE IF Len(ss) = 1 THEN ss[1]
    ELSE ss[1] \o sep \o Join(Tail(ss), sep)

EndsWith(s, suffix) ==
    /\ Len(suffix) <= Len(s)
    /\ SubSeq(s, Len(s) - Len(suffix) + 1, Len(s)) = suffix

\* s.slice(0, -n)
DropLast(s, n) == SubSeq(s, 1, Len(s) - n)

\* the positions at or after from where atom sequence p occurs in s
Occurrences(s, p, from) ==
    {i \in from..(Len(s) - Len(p) + 1) : SubSeq(s, i, i + Len(p) - 1) = p}

\* position of the first occurrence of atom sequence p in s at or after
\* position from; 0 when there is none
IndexOf(s, p, from) ==
    LET hits == Occurrences(s, p, from)
    IN  IF hits = {} THEN 0 ELSE CHOOSE i \in hits : \A j \in hits : i <= j

Contains(s, p) == IndexOf(s, p, 1) # 0

\* number of (possibly overlapping) occurrences of p in s
CountOcc(s, p, from) == Cardinality(Occurrences(s, p, from))

(***************************************************************************)
(* JavaScript values.  A number is a double; the model keeps the integers, *)
(* the two infinities and the small multiples t * 1e-200, which are too    *)
(* small to change an integer they are added to and whose squares are 0.   *)
(* An object is its list of own properties in insertion order.             *)
(***************************************************************************)
Num(k) == [inf |-> 0, i |-> k, t |-> 0]
Tiny(k) == [inf |-> 0, i |-> 0, t |-> k]
Infinity == [inf |-> 1, i |-> 0, t |-> 0]
NegInfinity == [inf |-> -1, i |-> 0, t |-> 0]

Undefined == [t |-> "undefined"]
JNull == [t |-> "null"]
JBool(b) == [t |-> "bool", b |-> b]
JNum(n) == [t |-> "num", n |-> n]
JStr(s) == [t |-> "str", s |-> s]
JArr(a) == [t |-> "arr", a |-> a]
JObj(o) == [t |-> "obj", o |-> o]

\* typeof v
Typeof(v) ==
    CASE v.t = "undefined" -> "undefined"
      [] v.t = "bool" -> "boolean"
      [] v.t = "num" -> "number"
      [] v.t = "str" -> "string"
      [] OTHER -> "object"

\* Array.isArray(v)
IsArray(v) == v.t = "arr"

HasKey(o, k) == \E i \in 1..Len(o) : o[i].k = k

\* obj[k] where obj is an object value: the own property or undefined
Get(obj, k) ==
    IF HasKey(obj.o, k)
    THEN obj.o[CHOOSE i \in 1..Len(obj.o) : obj.o[i].k = k].v
    ELSE Undefined

\* obj[k] = v on a property list: an existing key keeps its position
ObjSet(o, k, v) ==
    IF HasKey(o, k)
    THEN [i \in 1..Len(o) |-> IF o[i].k = k THEN [k |-> k, v |-> v] ELSE o[i]]
    ELSE Append(o, [k |-> k, v |-> v])

(***************************************************************************)
(* Number <-> text.                                                        *)
(***************************************************************************)
DigitVal ==
    "0" :> 0 @@ "1" :> 1 @@ "2" :> 2 @@ "3" :> 3 @@ "4" :> 4 @@
    "5" :> 5 @@ "6" :> 6 @@ "7" :> 7 @@ "8" :> 8 @@ "9" :> 9

DigitChar == <<"0", "1", "2", "3", "4", "5", "6", "7", "8", "9">>

IsDigit(a) == a \in DOMAIN DigitVal

RECURSIVE Digits(_)
Digits(k) ==
    IF k < 10 THEN <<DigitChar[k + 1]>>
    ELSE Digits(k \div 10) \o <<DigitChar[(k % 10) + 1]>>

\* String(n), as in a template literal `${n}`
NumToString(n) ==
    IF n.inf = 2 THEN <<"NaN">>
    ELSE IF n.inf = 1 THEN <<"Infinity">>
    ELSE IF n.inf = -1 THEN <<"-", "Infinity">>
    ELSE IF n.t < 0 THEN <<"-">> \o Digits(-n.t) \o <<"e", "-", "2", "0", "0">>
    ELSE IF n.t > 0 THEN Digits(n.t) \o <<"e", "-", "2", "0", "0">>
    ELSE IF n.i < 0 THEN <<"-">> \o Digits(-n.i)
    ELSE Digits(n.i)

(***************************************************************************)
(* JSON.parse.  The result of a sub-parse is [ok, v, i]: the value and the *)
(* position after it; [ok |-> FALSE] is a SyntaxError.                     *)
(***************************************************************************)
Fail == [ok |-> FALSE]
Ok(v, i) == [ok |-> TRUE, v |-> v, i |-> i]

JsonWhitespace == {" ", "\n", "\t", "\r"}

RECURSIVE SkipWs(_, _)
SkipWs(t, i) ==
    IF i <= Len(t) /\ t[i] \in JsonWhitespace THEN SkipWs(t, i + 1) ELSE i

\* the characters after the opening quote, up to the closing quote
RECURSIVE LexString(_, _, _)
LexString(t, i, acc) ==
    IF i > Len(t) THEN Fail
    ELSE IF t[i] = "\"" THEN Ok(JStr(acc), i + 1)
    ELSE IF t[i] = "\\" THEN
        IF i + 1 > Len(t) THEN Fail
        ELSE IF t[i + 1] \in {"\"", "\\", "/"}
             THEN LexString(t, i + 2, Append(acc, t[i + 1]))
        ELSE IF t[i + 1] = "n" THEN LexString(t, i + 2, Append(acc, "\n"))
        ELSE IF t[i + 1] = "t" THEN LexString(t, i + 2, Append(acc, "\t"))
        ELSE IF t[i + 1] = "r" THEN LexString(t, i + 2, Append(acc, "\r"))
        ELSE Fail
    ELSE IF t[i] \in {"\n", "\t", "\r"} THEN Fail
    ELSE LexString(t, i + 1, Append(acc, t[i]))

RECURSIVE LexDigits(_, _, _)
LexDigits(t, i, acc) ==
    IF i <= Len(t) /\ IsDigit(t[i])
    THEN LexDigits(t, i + 1, acc * 10 + DigitVal[t[i]])
    ELSE [v |-> acc, i |-> i]

\* -? int (e -? int)?  ; a literal beyond the range of a double is
\* +-Infinity, one below it is 0; of the literals with a negative exponent
\* the model reads those it has a number for
LexNumber(t, i) ==
    LET neg == t[i] = "-"
        j == IF neg THEN i + 1 ELSE i
        sign == IF neg THEN -1 ELSE 1
    IN  IF j > Len(t) \/ ~IsDigit(t[j]) THEN Fail
        ELSE IF t[j] = "0" /\ j + 1 <= Len(t) /\ IsDigit(t[j + 1]) THEN Fail
        ELSE
          LET m == LexDigits(t, j, 0)
          IN  IF ~(m.i <= Len(t) /\ t[m.i] \in {"e", "E"})
              THEN Ok(JNum(Num(sign * m.v)), m.i)
              ELSE IF m.i + 1 <= Len(t) /\ t[m.i + 1] = "-"
              THEN IF m.i + 2 > Len(t) \/ ~IsDigit(t[m.i + 2]) THEN Fail
                   ELSE
                     LET e == LexDigits(t, m.i + 2, 0)
                     IN  CASE m.v = 0 \/ e.v >= 400 -> Ok(JNum(Num(0)), e.i)
                           [] m.v # 0 /\ e.v = 200 -> Ok(JNum(Tiny(sign * m.v)), e.i)
              ELSE IF m.i + 1 > Len(t) \/ ~IsDigit(t[m.i + 1]) THEN Fail
              ELSE
                LET e == LexDigits(t, m.i + 1, 0)
                IN  IF m.v = 0 THEN Ok(JNum(Num(0)), e.i)
                    ELSE IF e.v > 308
                         THEN Ok(JNum(IF neg THEN NegInfinity ELSE Infinity), e.i)
                    ELSE Ok(JNum(Num(sign * m.v * (10 ^ e.v))), e.i)

RECURSIVE ParseValue(_, _)
RECURSIVE ParseMembers(_, _, _)
RECURSIVE ParseElements(_, _, _)

ParseValue(t, i0) ==
    LET i == SkipWs(t, i0)
    IN  IF i > Len(t) THEN Fail
        ELSE IF t[i] = "{" THEN
            LET j == SkipWs(t, i + 1)
            IN  IF j <= Len(t) /\ t[j] = "}" THEN Ok(JObj(<<>>), j + 1)
                ELSE ParseMembers(t, j, <<>>)
        ELSE IF t[i] = "[" THEN
            LET j == SkipWs(t, i + 1)
            IN  IF j <= Len(t) /\ t[j] = "]" THEN Ok(JArr(<<>>), j + 1)
                ELSE ParseElements(t, j, <<>>)
        ELSE IF t[i] = "\"" THEN LexString(t, i + 1, <<>>)
        ELSE IF t[i] = "-" \/ IsDigit(t[i]) THEN LexNumber(t, i)
        ELSE IF t[i] = "null" THEN Ok(JNull, i + 1)
        ELSE IF t[i] = "true" THEN Ok(JBool(TRUE), i + 1)
        ELSE IF t[i] = "false" THEN Ok(JBool(FALSE), i + 1)
        ELSE Fail

\* i is at the first character of a member; acc holds the members so far
ParseMembers(t, i, acc) ==
    IF i > Len(t) \/ t[i] # "\"" THEN Fail
    ELSE
      LET k == LexString(t, i + 1, <<>>)
      IN  IF ~k.ok THEN Fail
          ELSE
            LET c == SkipWs(t, k.i)
            IN  IF c > Len(t) \/ t[c] # ":" THEN Fail
                ELSE
                  LET v == ParseValue(t, c + 1)
                  IN  IF ~v.ok THEN Fail
                      ELSE
                        LET n == SkipWs(t, v.i)
                            acc2 == ObjSet(acc, k.v.s, v.v)
                        IN  IF n > Len(t) THEN Fail
                            ELSE IF t[n] = "}" THEN Ok(JObj(acc2), n + 1)
                            ELSE IF t[n] = ","
                                 THEN ParseMembers(t, SkipWs(t, n + 1), acc2)
                            ELSE Fail

\* i is at the first character of an element; acc holds the elements so far
ParseElements(t, i, acc) ==
    LET v == ParseValue(t, i)
    IN  IF ~v.ok THEN Fail
        ELSE
          LET n == SkipWs(t, v.i)
              acc2 == Append(acc, v.v)
          IN  IF n > Len(t) THEN Fail
              ELSE IF t[n] = "]" THEN Ok(JArr(acc2), n + 1)
              ELSE IF t[n] = "," THEN ParseElements(t, SkipWs(t, n + 1), acc2)
              ELSE Fail

\* JSON.parse(t): [ok |-> TRUE, v |-> value], or [ok |-> FALSE] when it throws
\* the end of JSON.parse: only white space may follow the value r
WholeText(t, r) ==
    IF ~r.ok THEN Fail
    ELSE IF SkipWs(t, r.i) <= Len(t) THEN Fail
    ELSE [ok |-> TRUE, v |-> r.v]

JSONparse(t) == WholeText(t, ParseValue(t, 1))

(***************************************************************************)
(* JSON.stringify.                                                         *)
(***************************************************************************)
\* one character of a string, as JSON.stringify quotes it
QuoteChar(a) ==
    CASE a = "\"" -> <<"\\", "\"">>
      [] a = "\\" -> <<"\\", "\\">>
      [] a = "\n" -> <<"\\", "n">>
      [] a = "\t" -> <<"\\", "t">>
      [] a = "\r" -> <<"\\", "r">>
      [] OTHER -> <<a>>

QuoteString(s) == <<"\"">> \o Flatten([i \in 1..Len(s) |-> QuoteChar(s[i])]) \o <<"\"">>

RECURSIVE JSONstringify(_)
JSONstringify(v) ==
    CASE v.t = "null" -> <<"null">>
      [] v.t = "bool" -> IF v.b THEN <<"true">> ELSE <<"false">>
      [] v.t = "num" -> IF v.n.inf # 0 THEN <<"null">> ELSE NumToString(v.n)
      [] v.t = "str" -> QuoteString(v.s)
      [] v.t = "arr" ->
            <<"[">>
            \o Join([i \in 1..Len(v.a) |-> JSONstringify(v.a[i])], <<",">>)
            \o <<"]">>
      [] v.t = "obj" ->
            <<"{">>
            \o Join([i \in 1..Len(v.o) |->
                       QuoteString(v.o[i].k) \o <<":">> \o JSONstringify(v.o[i].v)],
                    <<",">>)
            \o <<"}">>

(***************************************************************************)
(* canvas-utils: validation helpers.                                       *)
(***************************************************************************)
VALID_NODE_TYPES == {<<"text">>, <<"file">>, <<"link">>, <<"group">>}
VALID_SIDES == {<<"top">>, <<"right">>, <<"bottom">>, <<"left">>}

isRecord(value) == Typeof(value) = "object" /\ value # JNull /\ ~IsArray(value)

\* the first field of fields (in order) for which typeof raw[field] is not
\* type; 0 when every field has it
FirstNotOfType(raw, fields, type) ==
    LET bad == {i \in 1..Len(fields) : Typeof(Get(raw, fields[i])) # type}
    IN  IF bad = {} THEN 0 ELSE CHOOSE i \in bad : \A j \in bad : i <= j

\* if (typeof raw[key] === "string") target[key] = raw[key]
CopyIfString(target, raw, key) ==
    IF Typeof(Get(raw, key)) = "string"
    THEN ObjSet(target, key, Get(raw, key))
    ELSE target

RECURSIVE CopyStrings(_, _, _)
CopyStrings(target, raw, keys) ==
    IF keys = <<>> THEN target
    ELSE CopyStrings(CopyIfString(target, raw, Head(keys)), raw, Tail(keys))

Quoted(s) == <<"\"">> \o s \o <<"\"">>

NodeError(index, rest) ==
    [ok |-> FALSE, error |-> <<"Node at index ">> \o Digits(index) \o rest]

EdgeError(index, rest) ==
    [ok |-> FALSE, error |-> <<"Edge at index ">> \o Digits(index) \o rest]

NodeRequiredStrings == << <<"id">>, <<"type">> >>
NodeRequiredNumbers == << <<"x">>, <<"y">>, <<"width">>, <<"height">> >>
NodeOptionalStrings ==
    << <<"text">>, <<"file">>, <<"url">>, <<"label">>, <<"color">> >>

\* validateNode without the check of the type against VALID_NODE_TYPES
validateNode_NoTypeCheck(raw, index) ==
    IF ~isRecord(raw) THEN NodeError(index, <<" is not an object">>)
    ELSE
      LET s == FirstNotOfType(raw, NodeRequiredStrings, "string")
          n == FirstNotOfType(raw, NodeRequiredNumbers, "number")
          node == [i \in 1..6 |->
                     LET key == (NodeRequiredStrings \o NodeRequiredNumbers)[i]
                     IN  [k |-> key, v |-> Get(raw, key)]]
      IN  IF s # 0
          THEN NodeError(index, <<" is missing required string field ">>
                                \o Quoted(NodeRequiredStrings[s]))
          ELSE IF n # 0
          THEN NodeError(index, <<" is missing required number field ">>
                                \o Quoted(NodeRequiredNumbers[n]))
          ELSE [ok |-> TRUE,
                node |-> JObj(CopyStrings(node, raw, NodeOptionalStrings))]

\* validateNode that returns the raw object with all its keys
validateNode_KeepsRaw(raw, index) ==
    IF ~isRecord(raw) THEN NodeError(index, <<" is not an object">>)
    ELSE
      LET s == FirstNotOfType(raw, NodeRequiredStrings, "string")
          n == FirstNotOfType(raw, NodeRequiredNumbers, "number")
          typeValue == Get(raw, <<"type">>).s
      IN  IF s # 0
          THEN NodeError(index, <<" is missing required string field ">>
                                \o Quoted(NodeRequiredStrings[s]))
          ELSE IF n # 0
          THEN NodeError(index, <<" is missing required number field ">>
                                \o Quoted(NodeRequiredNumbers[n]))
          ELSE IF typeValue \notin VALID_NODE_TYPES
          THEN NodeError(index, <<" has invalid type ">> \o Quoted(typeValue)
                                \o <<". Must be one of: text, file, link, group">>)
          ELSE [ok |-> TRUE, node |-> raw]

\* validateNode that checks the type against VALID_NODE_TYPES before the
\* required numbers
validateNode_EnumFirst(raw, index) ==
    IF ~isRecord(raw) THEN NodeError(index, <<" is not an object">>)
    ELSE
      LET s == FirstNotOfType(raw, NodeRequiredStrings, "string")
          n == FirstNotOfType(raw, NodeRequiredNumbers, "number")
          typeValue == Get(raw, <<"type">>).s
          node == [i \in 1..6 |->
                     LET key == (NodeRequiredStrings \o NodeRequiredNumbers)[i]
                     IN  [k |-> key, v |-> Get(raw, key)]]
      IN  IF s # 0
          THEN NodeError(index, <<" is missing required string field ">>
                                \o Quoted(NodeRequiredStrings[s]))
          ELSE IF typeValue \notin VALID_NODE_TYPES
          THEN NodeError(index, <<" has invalid type ">> \o Quoted(typeValue)
                                \o <<". Must be one of: text, file, link, group">>)
          ELSE IF n # 0
          THEN NodeError(index, <<" is missing required number field ">>
                                \o Quoted(NodeRequiredNumbers[n]))
          ELSE [ok |-> TRUE,
                node |-> JObj(CopyStrings(node, raw, NodeOptionalStrings))]

\* [ok |-> TRUE, node |-> n] or [ok |-> FALSE, error |-> message]
validateNode(raw, index) ==
    IF ~isRecord(raw) THEN NodeError(index, <<" is not an object">>)
    ELSE
      LET s == FirstNotOfType(raw, NodeRequiredStrings, "string")
          n == FirstNotOfType(raw, NodeRequiredNumbers, "number")
          typeValue == Get(raw, <<"type">>).s
          node == <<[k |-> <<"id">>, v |-> Get(raw, <<"id">>)],
                    [k |-> <<"type">>, v |-> JStr(typeValue)],
                    [k |-> <<"x">>, v |-> Get(raw, <<"x">>)],
                    [k |-> <<"y">>, v |-> Get(raw, <<"y">>)],
                    [k |-> <<"width">>, v |-> Get(raw, <<"width">>)],
                    [k |-> <<"height">>, v |-> Get(raw, <<"height">>)]>>
      IN  IF s # 0
          THEN NodeError(index, <<" is missing required string field ">>
                                \o Quoted(NodeRequiredStrings[s]))
          ELSE IF n # 0
          THEN NodeError(index, <<" is missing required number field ">>
                                \o Quoted(NodeRequiredNumbers[n]))
          ELSE IF typeValue \notin VALID_NODE_TYPES
          THEN NodeError(index, <<" has invalid type ">> \o Quoted(typeValue)
                                \o <<". Must be one of: text, file, link, group">>)
          ELSE [ok |-> TRUE,
                node |-> JObj(CopyStrings(node, raw, NodeOptionalStrings))]

EdgeRequiredStrings == << <<"id">>, <<"fromNode">>, <<"toNode">> >>

\* CopySide that copies every string
CopySide_AnyString(target, raw, field) ==
    IF Get(raw, field) # Undefined
    THEN IF Typeof(Get(raw, field)) = "string"
         THEN ObjSet(target, field, Get(raw, field))
         ELSE target
    ELSE target

\* the optional side field: copied only when a string of VALID_SIDES
CopySide(target, raw, field) ==
    IF Get(raw, field) # Undefined
    THEN IF Typeof(Get(raw, field)) = "string" /\ Get(raw, field).s \in VALID_SIDES
         THEN ObjSet(target, field, Get(raw, field))
         ELSE target
    ELSE target

\* [ok |-> TRUE, edge |-> e] or [ok |-> FALSE, error |-> message]
validateEdge(raw, index) ==
    IF ~isRecord(raw) THEN EdgeError(index, <<" is not an object">>)
    ELSE
      LET s == FirstNotOfType(raw, EdgeRequiredStrings, "string")
          edge == <<[k |-> <<"id">>, v |-> Get(raw, <<"id">>)],
                    [k |-> <<"fromNode">>, v |-> Get(raw, <<"fromNode">>)],
                    [k |-> <<"toNode">>, v |-> Get(raw, <<"toNode">>)]>>
          sided == CopySide(CopySide(edge, raw, <<"fromSide">>), raw, <<"toSide">>)
      IN  IF s # 0
          THEN EdgeError(index, <<" is missing required string field ">>
                                \o Quoted(EdgeRequiredStrings[s]))
          ELSE [ok |-> TRUE,
                edge |-> JObj(CopyStrings(sided, raw, << <<"label">>, <<"color">> >>))]

(***************************************************************************)
(* canvas-utils: parseCanvasData and serializeCanvasData.                  *)
(***************************************************************************)
NodeId(n) == Get(n, <<"id">>).s
EdgeId(e) == Get(e, <<"id">>).s
FromNode(e) == Get(e, <<"fromNode">>).s
ToNode(e) == Get(e, <<"toNode">>).s

\* const nodeIds = new Set(nodes.map((n) => n.id))
NodeIdSet(nodes) == {NodeId(nodes[i]) : i \in 1..Len(nodes)}

MakeData(nodes, edges) ==
    JObj(<<[k |-> <<"nodes">>, v |-> JArr(nodes)],
           [k |-> <<"edges">>, v |-> JArr(edges)]>>)

DataNodes(data) == Get(data, <<"nodes">>).a
DataEdges(data) == Get(data, <<"edges">>).a

\* DanglingWarning that always reports the edge's fromNode
DanglingWarning_AlwaysFrom(edge, which) ==
    [message |-> <<"Edge ">> \o Quoted(EdgeId(edge))
                 \o <<" references non-existent ">> \o which \o <<" ">>
                 \o Quoted(FromNode(edge)) \o <<" -- skipped">>]

\* the warning for an edge whose endpoint `which` names no node
\* (" -- skipped" stands for the source's " — skipped")
DanglingWarning(edge, which) ==
    [message |-> <<"Edge ">> \o Quoted(EdgeId(edge))
                 \o <<" references non-existent ">> \o which \o <<" ">>
                 \o Quoted(Get(edge, which).s) \o <<" -- skipped">>]

\* ValidateNodes that puts each node in front of the earlier ones
RECURSIVE ValidateNodes_Prepends(_, _, _)
ValidateNodes_Prepends(raws, i, nodes) ==
    IF i > Len(raws) THEN [ok |-> TRUE, nodes |-> nodes]
    ELSE
      LET result == validateNode(raws[i], i - 1)
      IN  IF ~result.ok THEN [ok |-> FALSE, error |-> result.error]
          ELSE ValidateNodes_Prepends(raws, i + 1, <<result.node>> \o nodes)

\* Step 3: the loop over parsed["nodes"]; i is the 1-based position
RECURSIVE ValidateNodes(_, _, _)
ValidateNodes(raws, i, nodes) ==
    IF i > Len(raws) THEN [ok |-> TRUE, nodes |-> nodes]
    ELSE
      LET result == validateNode(raws[i], i - 1)
      IN  IF ~result.ok THEN [ok |-> FALSE, error |-> result.error]
          ELSE ValidateNodes(raws, i + 1, Append(nodes, result.node))

\* ValidateEdges that checks fromNode only
RECURSIVE ValidateEdges_FromOnly(_, _, _, _, _)
ValidateEdges_FromOnly(raws, i, nodeIds, edges, warnings) ==
    IF i > Len(raws) THEN [ok |-> TRUE, edges |-> edges, warnings |-> warnings]
    ELSE
      LET result == validateEdge(raws[i], i - 1)
      IN  IF ~result.ok THEN [ok |-> FALSE, error |-> result.error]
          ELSE IF FromNode(result.edge) \notin nodeIds
          THEN ValidateEdges_FromOnly(raws, i + 1, nodeIds, edges,
                   Append(warnings, DanglingWarning(result.edge, <<"fromNode">>)))
          ELSE ValidateEdges_FromOnly(raws, i + 1, nodeIds,
                   Append(edges, result.edge), warnings)

\* ValidateEdges that skips a structurally invalid edge
RECURSIVE ValidateEdges_SkipInvalid(_, _, _, _, _)
ValidateEdges_SkipInvalid(raws, i, nodeIds, edges, warnings) ==
    IF i > Len(raws) THEN [ok |-> TRUE, edges |-> edges, warnings |-> warnings]
    ELSE
      LET result == validateEdge(raws[i], i - 1)
      IN  IF ~result.ok
          THEN ValidateEdges_SkipInvalid(raws, i + 1, nodeIds, edges, warnings)
          ELSE IF FromNode(result.edge) \notin nodeIds
          THEN ValidateEdges_SkipInvalid(raws, i + 1, nodeIds, edges,
                   Append(warnings, DanglingWarning(result.edge, <<"fromNode">>)))
          ELSE IF ToNode(result.edge) \notin nodeIds
          THEN ValidateEdges_SkipInvalid(raws, i + 1, nodeIds, edges,
                   Append(warnings, DanglingWarning(result.edge, <<"toNode">>)))
          ELSE ValidateEdges_SkipInvalid(raws, i + 1, nodeIds,
                   Append(edges, result.edge), warnings)

\* Step 5: the loop over parsed["edges"]
\* ValidateEdges that warns once for each missing endpoint
RECURSIVE ValidateEdges_WarnsPerEndpoint(_, _, _, _, _)
ValidateEdges_WarnsPerEndpoint(raws, i, nodeIds, edges, warnings) ==
    IF i > Len(raws) THEN [ok |-> TRUE, edges |-> edges, warnings |-> warnings]
    ELSE
      LET result == validateEdge(raws[i], i - 1)
          from == IF FromNode(result.edge) \notin nodeIds
                  THEN <<DanglingWarning(result.edge, <<"fromNode">>)>> ELSE <<>>
          to == IF ToNode(result.edge) \notin nodeIds
                THEN <<DanglingWarning(result.edge, <<"toNode">>)>> ELSE <<>>
      IN  IF ~result.ok THEN [ok |-> FALSE, error |-> result.error]
          ELSE IF from \o to # <<>>
          THEN ValidateEdges_WarnsPerEndpoint(raws, i + 1, nodeIds, edges,
                                              warnings \o from \o to)
          ELSE ValidateEdges_WarnsPerEndpoint(raws, i + 1, nodeIds,
                                              Append(edges, result.edge), warnings)

\* ValidateEdges that warns about a dangling edge and keeps it
RECURSIVE ValidateEdges_KeepsDangling(_, _, _, _, _)
ValidateEdges_KeepsDangling(raws, i, nodeIds, edges, warnings) ==
    IF i > Len(raws) THEN [ok |-> TRUE, edges |-> edges, warnings |-> warnings]
    ELSE
      LET result == validateEdge(raws[i], i - 1)
      IN  IF ~result.ok THEN [ok |-> FALSE, error |-> result.error]
          ELSE IF FromNode(result.edge) \notin nodeIds
          THEN ValidateEdges_KeepsDangling(raws, i + 1, nodeIds, Append(edges, result.edge),
                   Append(warnings, DanglingWarning(result.edge, <<"fromNode">>)))
          ELSE IF ToNode(result.edge) \notin nodeIds
          THEN ValidateEdges_KeepsDangling(raws, i + 1, nodeIds, Append(edges, result.edge),
                   Append(warnings, DanglingWarning(result.edge, <<"toNode">>)))
          ELSE ValidateEdges_KeepsDangling(raws, i + 1, nodeIds,
                                           Append(edges, result.edge), warnings)

RECURSIVE ValidateEdges(_, _, _, _, _)
ValidateEdges(raws, i, nodeIds, edges, warnings) ==
    IF i > Len(raws) THEN [ok |-> TRUE, edges |-> edges, warnings |-> warnings]
    ELSE
      LET result == validateEdge(raws[i], i - 1)
      IN  IF ~result.ok THEN [ok |-> FALSE, error |-> result.error]
          ELSE IF FromNode(result.edge) \notin nodeIds
          THEN ValidateEdges(raws, i + 1, nodeIds, edges,
                   Append(warnings, DanglingWarning(result.edge, <<"fromNode">>)))
          ELSE IF ToNode(result.edge) \notin nodeIds
          THEN ValidateEdges(raws, i + 1, nodeIds, edges,
                   Append(warnings, DanglingWarning(result.edge, <<"toNode">>)))
          ELSE ValidateEdges(raws, i + 1, nodeIds, Append(edges, result.edge),
                             warnings)

ParseFailure(message) == [ok |-> FALSE, error |-> message]

\* [ok |-> TRUE, data, warnings] or [ok |-> FALSE, error]
parseCanvasData(raw) ==
    LET parsed == JSONparse(raw)
    IN  IF ~parsed.ok
        THEN ParseFailure(<<"Malformed JSON: unable to parse canvas file">>)
        ELSE IF ~isRecord(parsed.v)
        THEN ParseFailure(
               <<"Invalid canvas schema: expected an object with nodes and edges">>)
        ELSE IF ~IsArray(Get(parsed.v, <<"nodes">>))
        THEN ParseFailure(<<"Invalid canvas schema: ", "\"", "nodes", "\"",
                            " must be an array">>)
        ELSE IF ~IsArray(Get(parsed.v, <<"edges">>))
        THEN ParseFailure(<<"Invalid canvas schema: ", "\"", "edges", "\"",
                            " must be an array">>)
        ELSE
          LET ns == ValidateNodes(Get(parsed.v, <<"nodes">>).a, 1, <<>>)
          IN  IF ~ns.ok THEN ParseFailure(ns.error)
              ELSE
                LET es == ValidateEdges(Get(parsed.v, <<"edges">>).a, 1,
                                        NodeIdSet(ns.nodes), <<>>, <<>>)
                IN  IF ~es.ok THEN ParseFailure(es.error)
                    ELSE [ok |-> TRUE,
                          data |-> MakeData(ns.nodes, es.edges),
                          warnings |-> es.warnings]

serializeCanvasData(data) ==
    JSONstringify(JObj(<<[k |-> <<"nodes">>, v |-> Get(data, <<"nodes">>)],
                         [k |-> <<"edges">>, v |-> Get(data, <<"edges">>)]>>))

(***************************************************************************)
(* canvas-renderer: helpers.                                               *)
(***************************************************************************)
\* str.replace(/a/g, rep) for a one-character pattern a
ReplaceAll(str, a, rep) ==
    Flatten([i \in 1..Len(str) |-> IF str[i] = a THEN rep ELSE <<str[i]>>])

escapeHtml(str) ==
    LET s1 == ReplaceAll(str, "&", <<"&", "amp", ";">>)
        s2 == ReplaceAll(s1, "<", <<"&", "lt", ";">>)
        s3 == ReplaceAll(s2, ">", <<"&", "gt", ";">>)
        s4 == ReplaceAll(s3, "\"", <<"&", "quot", ";">>)
    IN  ReplaceAll(s4, "'", <<"&", "#039", ";">>)

\* resolveFileUrl that keeps the trailing slash of baseUrl
resolveFileUrl_KeepSlash(baseUrl, filePath) ==
    LET stripped == IF EndsWith(filePath, <<".", "m", "d">>) THEN DropLast(filePath, 3)
                    ELSE filePath
    IN  baseUrl \o <<"/">> \o stripped

resolveFileUrl(baseUrl, filePath) ==
    LET normalized == IF EndsWith(baseUrl, <<"/">>) THEN DropLast(baseUrl, 1)
                      ELSE baseUrl
        stripped == IF EndsWith(filePath, <<".", "m", "d">>) THEN DropLast(filePath, 3)
                    ELSE filePath
    IN  normalized \o <<"/">> \o stripped

\* !v
Falsy(v) ==
    \/ v.t \in {"undefined", "null"}
    \/ v.t = "bool" /\ ~v.b
    \/ v.t = "num" /\ v.n = Num(0)
    \/ v.t = "str" /\ v.s = <<>>

\* v ? ... : ...
Truthy(v) == ~Falsy(v)

\* v ?? ""  for a value that is a string or undefined
OrEmpty(v) == IF v = Undefined \/ v = JNull THEN <<>> ELSE v.s

\* `data-node-id="${escapeHtml(node.id)}" style="position:absolute;...;">`
NodeAttrs(node) ==
    <<"data-node-id=\"">> \o escapeHtml(NodeId(node)) \o <<"\" ">>
    \o <<"style=\"position:absolute;left:">> \o NumToString(Get(node, <<"x">>).n)
    \o <<"px;top:">> \o NumToString(Get(node, <<"y">>).n)
    \o <<"px;width:">> \o NumToString(Get(node, <<"width">>).n)
    \o <<"px;height:">> \o NumToString(Get(node, <<"height">>).n)
    \o <<"px;\">">>

(***************************************************************************)
(* canvas-renderer: node and edge renderers.                               *)
(***************************************************************************)
renderTextNode(node) ==
    LET content == IF Truthy(Get(node, <<"text">>))
                   THEN escapeHtml(Get(node, <<"text">>).s) ELSE <<>>
    IN  <<"<div class=\"canvas-node canvas-node-text\" ">> \o NodeAttrs(node)
        \o <<"<div class=\"canvas-node-content\">">> \o content \o <<"</div>">>
        \o <<"</div>">>

renderFileNode(node, baseUrl) ==
    LET filePath == OrEmpty(Get(node, <<"file">>))
        href == resolveFileUrl(baseUrl, filePath)
        label == escapeHtml(filePath)
    IN  <<"<div class=\"canvas-node canvas-node-file\" ">> \o NodeAttrs(node)
        \o <<"<a href=\"">> \o escapeHtml(href) \o <<"\">">> \o label \o <<"</a>">>
        \o <<"</div>">>

renderGroupNode(node) ==
    LET label == IF Truthy(Get(node, <<"label">>))
                 THEN escapeHtml(Get(node, <<"label">>).s) ELSE <<>>
    IN  <<"<div class=\"canvas-node canvas-node-group\" ">> \o NodeAttrs(node)
        \o <<"<div class=\"canvas-group-label\">">> \o label \o <<"</div>">>
        \o <<"<div class=\"canvas-group-container\"></div>">>
        \o <<"</div>">>

renderLinkNode(node) ==
    LET url == OrEmpty(Get(node, <<"url">>))
        displayUrl == escapeHtml(url)
    IN  <<"<div class=\"canvas-node canvas-node-link\" ">> \o NodeAttrs(node)
        \o <<"<a href=\"">> \o escapeHtml(url) \o <<"\">">> \o displayUrl \o <<"</a>">>
        \o <<"</div>">>

\* renderNode whose switch has no case for groups
renderNode_NoGroupCase(node, baseUrl) ==
    LET type == Get(node, <<"type">>)
    IN  CASE type = JStr(<<"text">>) -> renderTextNode(node)
          [] type = JStr(<<"file">>) -> renderFileNode(node, baseUrl)
          [] type = JStr(<<"link">>) -> renderLinkNode(node)
          [] OTHER -> renderTextNode(node)

renderNode(node, baseUrl) ==
    LET type == Get(node, <<"type">>)
    IN  CASE type = JStr(<<"text">>) -> renderTextNode(node)
          [] type = JStr(<<"file">>) -> renderFileNode(node, baseUrl)
          [] type = JStr(<<"group">>) -> renderGroupNode(node)
          [] type = JStr(<<"link">>) -> renderLinkNode(node)
          [] OTHER -> renderTextNode(node)

\* renderEdge with the two endpoint attributes exchanged
renderEdge_Swapped(edge) ==
    LET labelAttr == IF Truthy(Get(edge, <<"label">>))
                     THEN <<"\" data-edge-label=\"">>
                          \o escapeHtml(Get(edge, <<"label">>).s) \o <<"\" />">>
                     ELSE <<"\" />">>
    IN  <<"<line class=\"canvas-edge\" ">>
        \o <<"data-edge-id=\"">> \o escapeHtml(EdgeId(edge)) \o <<"\" ">>
        \o <<"data-from-node=\"">> \o escapeHtml(ToNode(edge)) \o <<"\" ">>
        \o <<"data-to-node=\"">> \o escapeHtml(FromNode(edge))
        \o labelAttr

\* a connector that writes the label attribute of every edge
renderEdge_AlwaysLabel(edge) ==
    <<"<line class=\"canvas-edge\" ">>
    \o <<"data-edge-id=\"">> \o escapeHtml(EdgeId(edge)) \o <<"\" ">>
    \o <<"data-from-node=\"">> \o escapeHtml(FromNode(edge)) \o <<"\" ">>
    \o <<"data-to-node=\"">> \o escapeHtml(ToNode(edge))
    \o <<"\" data-edge-label=\"">>
    \o escapeHtml(OrEmpty(Get(edge, <<"label">>))) \o <<"\" />">>

renderEdge(edge) ==
    LET labelAttr == IF Truthy(Get(edge, <<"label">>))
                     THEN <<"\" data-edge-label=\"">>
                          \o escapeHtml(Get(edge, <<"label">>).s) \o <<"\" />">>
                     ELSE <<"\" />">>
    IN  <<"<line class=\"canvas-edge\" ">>
        \o <<"data-edge-id=\"">> \o escapeHtml(EdgeId(edge)) \o <<"\" ">>
        \o <<"data-from-node=\"">> \o escapeHtml(FromNode(edge)) \o <<"\" ">>
        \o <<"data-to-node=\"">> \o escapeHtml(ToNode(edge))
        \o labelAttr

(***************************************************************************)
(* canvas-renderer: public API.                                            *)
(***************************************************************************)
\* an error block that is put inside a graph container
renderCanvasError_InContainer(message) ==
    <<"<div id=\"canvas-graph\" class=\"canvas-container\">",
      "<div class=\"canvas-error\">", "<p class=\"canvas-error-message\">">>
    \o escapeHtml(message) \o <<"</p>", "</div>", "</div>">>

renderCanvasError(message) ==
    <<"<div class=\"canvas-error\">">>
    \o <<"<p class=\"canvas-error-message\">">> \o escapeHtml(message) \o <<"</p>">>
    \o <<"</div>">>

ScriptOpen == "<script type=\"application/json\" id=\"canvas-data\">"

renderCanvasToHtml(data, baseUrl) ==
    IF ~(Typeof(data) = "object" /\ data # JNull
         /\ IsArray(Get(data, <<"nodes">>)) /\ IsArray(Get(data, <<"edges">>)))
    THEN renderCanvasError(
           <<"This canvas file could not be rendered. The data is malformed.">>)
    ELSE
      LET nodes == DataNodes(data)
          edges == DataEdges(data)
          nodesHtml == Join([i \in 1..Len(nodes) |-> renderNode(nodes[i], baseUrl)],
                            <<"\n">>)
          edgesHtml == Join([i \in 1..Len(edges) |-> renderEdge(edges[i])], <<"\n">>)
          svgSection == IF Len(edges) > 0
                        THEN <<"<svg class=\"canvas-edges\">", "\n">> \o edgesHtml
                             \o <<"\n", "</svg>">>
                        ELSE <<"<svg class=\"canvas-edges\">", "</svg>">>
          jsonBlob == JSONstringify(data)
      IN  <<"<div id=\"canvas-graph\" class=\"canvas-container\">", "\n">>
          \o <<"<div class=\"canvas-nodes\">", "\n">> \o nodesHtml \o <<"\n", "</div>", "\n">>
          \o svgSection \o <<"\n">>
          \o <<"</div>", "\n">>
          \o <<ScriptOpen>> \o jsonBlob \o <<"</script>">>

(***************************************************************************)
(* CanvasTransformer.textTransform.                                        *)
(***************************************************************************)
\* the characters String.prototype.trim removes (white space and line
\* terminators; BOM stands for U+FEFF)
TrimWhitespace == {" ", "\n", "\t", "\r", "BOM"}

RECURSIVE TrimStart(_)
TrimStart(s) ==
    IF s # <<>> /\ Head(s) \in TrimWhitespace THEN TrimStart(Tail(s)) ELSE s

RECURSIVE TrimEnd(_)
TrimEnd(s) ==
    IF s # <<>> /\ s[Len(s)] \in TrimWhitespace THEN TrimEnd(DropLast(s, 1)) ELSE s

Trim(s) == TrimEnd(TrimStart(s))

\* textTransform that passes the trimmed text through
textTransform_ReturnsTrimmed(cfgBaseUrl, source) ==
    LET trimmed == Trim(source)
        raw == JSONparse(trimmed)
        result == parseCanvasData(trimmed)
        baseUrl == OrEmpty(cfgBaseUrl)
    IN  IF ~(trimmed # <<>> /\ Head(trimmed) = "{") THEN trimmed
        ELSE IF ~raw.ok THEN trimmed
        ELSE IF \/ Typeof(raw.v) # "object"
                \/ raw.v = JNull
                \/ ~IsArray(Get(raw.v, <<"nodes">>))
                \/ ~IsArray(Get(raw.v, <<"edges">>))
        THEN trimmed
        ELSE IF ~result.ok THEN renderCanvasError(result.error)
        ELSE renderCanvasToHtml(result.data, baseUrl)

\* textTransform that looks for canvas JSON inside a payload element too
textTransform_ReadsPayload(cfgBaseUrl, source) ==
    LET opens == {k \in 1..Len(source) : source[k] = ScriptOpen}
        first == CHOOSE k \in opens : \A j \in opens : k <= j
        closes == {k \in 1..Len(source) : source[k] = "</script>" /\ opens # {} /\ k > first}
        last == CHOOSE k \in closes : \A j \in closes : k <= j
        trimmed == IF closes # {} THEN Trim(SubSeq(source, first + 1, last - 1))
                   ELSE Trim(source)
        raw == JSONparse(trimmed)
        result == parseCanvasData(trimmed)
        baseUrl == OrEmpty(cfgBaseUrl)
    IN  IF ~(trimmed # <<>> /\ Head(trimmed) = "{") THEN source
        ELSE IF ~raw.ok THEN source
        ELSE IF \/ Typeof(raw.v) # "object"
                \/ raw.v = JNull
                \/ ~IsArray(Get(raw.v, <<"nodes">>))
                \/ ~IsArray(Get(raw.v, <<"edges">>))
        THEN source
        ELSE IF ~result.ok THEN renderCanvasError(result.error)
        ELSE renderCanvasToHtml(result.data, baseUrl)

\* _ctx.cfg.configuration.baseUrl is a string or undefined
textTransform(cfgBaseUrl, source) ==
    LET trimmed == Trim(source)
        raw == JSONparse(trimmed)
        result == parseCanvasData(trimmed)
        baseUrl == OrEmpty(cfgBaseUrl)
    IN  IF ~(trimmed # <<>> /\ Head(trimmed) = "{") THEN source
        ELSE IF ~raw.ok THEN source
        ELSE IF \/ Typeof(raw.v) # "object"
                \/ raw.v = JNull
                \/ ~IsArray(Get(raw.v, <<"nodes">>))
                \/ ~IsArray(Get(raw.v, <<"edges">>))
        THEN source
        ELSE IF ~result.ok THEN renderCanvasError(result.error)
        ELSE renderCanvasToHtml(result.data, baseUrl)

(***************************************************************************)
(* canvas-graph.inline: recovery of the embedded payload.                  *)
(***************************************************************************)
\* whether the end tag of a script element starts at position i of the page:
\* the renderer's own closing tag, or the characters "</script" followed by
\* ">", "/" or white space wherever they come from
IsScriptEnd(html, i) ==
    \/ html[i] = "</script>"
    \/ /\ i + 3 <= Len(html)
       /\ html[i] = "<" /\ html[i + 1] = "/" /\ html[i + 2] = "script"
       /\ html[i + 3] \in {">", "/", " ", "\n", "\t"}

\* position of the first script end tag at or after position i; Len + 1
\* when there is none
ScriptEndFrom(html, i) ==
    LET ends == {j \in i..Len(html) : IsScriptEnd(html, j)}
    IN  IF ends = {} THEN Len(html) + 1 ELSE CHOOSE j \in ends : \A k \in ends : j <= k

\* document.getElementById("canvas-data"): the position of the first element
\* with that id in the page; 0 when there is none
GetCanvasDataEl(html) == IndexOf(html, <<ScriptOpen>>, 1)

\* dataEl.textContent: the script data up to the element's end tag
TextContent(html, el) == SubSeq(html, el + 1, ScriptEndFrom(html, el + 1) - 1)

\* v[k] for any value v that is not null or undefined (the model's arrays
\* and primitives have no property named nodes or edges)
Prop(v, k) == IF v.t = "obj" THEN Get(v, k) ELSE Undefined

\* what initCanvasGraph hands to renderCanvasGraph:
\* [mounted |-> TRUE, canvasData |-> v], or [mounted |-> FALSE] when it returns
initCanvasGraph(html) ==
    LET dataEl == GetCanvasDataEl(html)
        parsed == JSONparse(TextContent(html, dataEl))
    IN  IF dataEl = 0 THEN [mounted |-> FALSE]
        ELSE IF ~parsed.ok THEN [mounted |-> FALSE]
        ELSE IF \/ Falsy(parsed.v)
                \/ Falsy(Prop(parsed.v, <<"nodes">>))
                \/ Falsy(Prop(parsed.v, <<"edges">>))
        THEN [mounted |-> FALSE]
        ELSE [mounted |-> TRUE, canvasData |-> parsed.v]

\* window.location.origin of the page
origin == <<"o">>

\* const baseUrl of initCanvasGraph: the content of the page's base-url meta
\* element (meta is undefined when the page has none) or else the origin
PageBaseUrl(meta) == IF Truthy(meta) THEN meta.s ELSE origin

(***************************************************************************)
(* canvas-graph.inline: arithmetic on the numbers of a recovered payload.  *)
(* A payload field may hold null (an infinite coordinate was written as    *)
(* null) or be absent, so the operands are coerced as the operators of the *)
(* language coerce them.                                                   *)
(***************************************************************************)
NaN == [inf |-> 2, i |-> 0, t |-> 0]

\* ToNumber(v) for a value that is undefined, null, a boolean or a number
ToNumber(v) ==
    CASE v.t = "undefined" -> NaN
      [] v.t = "null" -> Num(0)
      [] v.t = "bool" -> IF v.b THEN Num(1) ELSE Num(0)
      [] v.t = "num" -> v.n

\* a + b on numbers
NAdd(a, b) ==
    IF a = NaN \/ b = NaN THEN NaN
    ELSE IF a.inf # 0 /\ b.inf # 0 THEN (IF a.inf = b.inf THEN a ELSE NaN)
    ELSE IF a.inf # 0 THEN a
    ELSE IF b.inf # 0 THEN b
    ELSE IF a.i + b.i # 0 THEN Num(a.i + b.i)
    ELSE Tiny(a.t + b.t)

\* -a
NNeg(a) ==
    IF a = NaN THEN NaN
    ELSE IF a.inf # 0 THEN [inf |-> -a.inf, i |-> 0, t |-> 0]
    ELSE [inf |-> 0, i |-> -a.i, t |-> -a.t]

\* a - b
NSub(a, b) == NAdd(a, NNeg(b))

\* a <= b; false when either is NaN
NLeq(a, b) ==
    /\ a # NaN /\ b # NaN
    /\ \/ a.inf = -1
       \/ b.inf = 1
       \/ a.inf = 0 /\ b.inf = 0 /\ (a.i < b.i \/ (a.i = b.i /\ a.t <= b.t))

\* Math.min(a, b), Math.max(a, b)
NMin(a, b) == IF a = NaN \/ b = NaN THEN NaN ELSE IF NLeq(a, b) THEN a ELSE b
NMax(a, b) == IF a = NaN \/ b = NaN THEN NaN ELSE IF NLeq(a, b) THEN b ELSE a

\* node[k] as a number: the operand of + - / Math.min Math.max
Coord(node, k) == ToNumber(Prop(node, k))

(***************************************************************************)
(* canvas-graph.inline: edge geometry.  A point is kept in half units, as  *)
(* [x2 |-> 2 * x, y2 |-> 2 * y], so that the centre x + width / 2 of a box *)
(* with odd width is an exact value of the model as it is of a double.     *)
(***************************************************************************)
getNodeAnchor(node, side) ==
    LET x2 == NAdd(Coord(node, <<"x">>), Coord(node, <<"x">>))
        y2 == NAdd(Coord(node, <<"y">>), Coord(node, <<"y">>))
        w2 == NAdd(Coord(node, <<"width">>), Coord(node, <<"width">>))
        h2 == NAdd(Coord(node, <<"height">>), Coord(node, <<"height">>))
        cx2 == NAdd(x2, Coord(node, <<"width">>))
        cy2 == NAdd(y2, Coord(node, <<"height">>))
    IN  CASE side = JStr(<<"top">>) -> [x2 |-> cx2, y2 |-> y2]
          [] side = JStr(<<"bottom">>) -> [x2 |-> cx2, y2 |-> NAdd(y2, h2)]
          [] side = JStr(<<"left">>) -> [x2 |-> x2, y2 |-> cy2]
          [] side = JStr(<<"right">>) -> [x2 |-> NAdd(x2, w2), y2 |-> cy2]
          [] OTHER -> [x2 |-> cx2, y2 |-> cy2]

\* d * d === 0
SquaresToZero(d) == d.inf = 0 /\ d.i = 0

\* the arrowhead with its tip at the other end of the edge
arrowheadPoints_TipAtFrom(from, to, size) ==
    LET dx2 == NSub(to.x2, from.x2)
        dy2 == NSub(to.y2, from.y2)
    IN  IF SquaresToZero(dx2) /\ SquaresToZero(dy2) THEN <<>>
        ELSE <<[tip |-> from, dir |-> [x2 |-> dx2, y2 |-> dy2], size |-> size]>>

\* the points attribute of an arrowhead: the empty string when the edge has
\* no length; otherwise a triangle given by its tip, the direction of the
\* edge (its base is perpendicular to it, size behind the tip) and its size
arrowheadPoints(from, to, size) ==
    LET dx2 == NSub(to.x2, from.x2)
        dy2 == NSub(to.y2, from.y2)
    IN  IF SquaresToZero(dx2) /\ SquaresToZero(dy2) THEN <<>>
        ELSE <<[tip |-> to, dir |-> [x2 |-> dx2, y2 |-> dy2], size |-> size]>>

(***************************************************************************)
(* canvas-graph.inline: the interactive graph.  The result of a mount is   *)
(* [threw, cleared, viewBox, scene]: whether a TypeError left the handler, *)
(* whether the container's static content was removed, the viewBox of the  *)
(* svg element ("" when none was created) and the drawn elements in        *)
(* document order, which is the order they are painted in.                 *)
(***************************************************************************)
ContainerOpen == "<div id=\"canvas-graph\" class=\"canvas-container\">"

\* document.getElementById("canvas-graph"): the position of the container
\* in the page; 0 when there is none
GetContainerEl(html) == IndexOf(html, <<ContainerOpen>>, 1)

\* the handler returned before touching the page
NoGraph == [threw |-> FALSE, cleared |-> FALSE, viewBox |-> <<>>, scene |-> <<>>]

\* whether for (const x of v) can start: arrays and strings are iterable
Iterable(v) == v.t \in {"arr", "str"}

\* the values for..of yields: the elements of an array, the characters of a
\* string
Elements(v) ==
    IF v.t = "arr" THEN v.a ELSE [i \in 1..Len(v.s) |-> JStr(<<v.s[i]>>)]

\* whether reading a property of v throws
Nullish(v) == v.t \in {"undefined", "null"}

\* nodeMap.get(key) after nodeMap.set(node.id, node) for every node in
\* order: the last node stored under the key.  Keys are compared by value;
\* an object or array key is only equal to itself and never to a parsed key
NodeMapGet(nodes, key) ==
    LET hits == {i \in 1..Len(nodes) :
                    /\ key.t \notin {"obj", "arr"}
                    /\ Prop(nodes[i], <<"id">>) = key}
    IN  IF hits = {} THEN Undefined
        ELSE nodes[CHOOSE i \in hits : \A j \in hits : j <= i]

padding == Num(50)
EmptyBox == [minX |-> Num(0), minY |-> Num(0), maxX |-> Num(800), maxY |-> Num(600)]

RECURSIVE BoundingBox(_, _, _)
BoundingBox(nodes, i, box) ==
    IF i > Len(nodes) THEN box
    ELSE BoundingBox(nodes, i + 1,
           [minX |-> NMin(box.minX, Coord(nodes[i], <<"x">>)),
            minY |-> NMin(box.minY, Coord(nodes[i], <<"y">>)),
            maxX |-> NMax(box.maxX, NAdd(Coord(nodes[i], <<"x">>),
                                         Coord(nodes[i], <<"width">>))),
            maxY |-> NMax(box.maxY, NAdd(Coord(nodes[i], <<"y">>),
                                         Coord(nodes[i], <<"height">>)))])

\* a viewport that pads the width and height once instead of on both sides
ViewOf_PadOnce(nodes) ==
    LET box == IF Len(nodes) = 0 THEN EmptyBox
               ELSE BoundingBox(nodes, 1, [minX |-> Infinity, minY |-> Infinity,
                                           maxX |-> NegInfinity, maxY |-> NegInfinity])
    IN  [x |-> NSub(box.minX, padding),
         y |-> NSub(box.minY, padding),
         width |-> NAdd(NSub(box.maxX, box.minX), padding),
         height |-> NAdd(NSub(box.maxY, box.minY), padding)]

\* viewX, viewY, viewWidth, viewHeight
ViewOf(nodes) ==
    LET box == IF Len(nodes) = 0 THEN EmptyBox
               ELSE BoundingBox(nodes, 1, [minX |-> Infinity, minY |-> Infinity,
                                           maxX |-> NegInfinity, maxY |-> NegInfinity])
    IN  [x |-> NSub(box.minX, padding),
         y |-> NSub(box.minY, padding),
         width |-> NAdd(NSub(box.maxX, box.minX), NAdd(padding, padding)),
         height |-> NAdd(NSub(box.maxY, box.minY), NAdd(padding, padding))]

\* `${viewX} ${viewY} ${viewWidth} ${viewHeight}`
ViewBoxAttr(view) ==
    NumToString(view.x) \o <<" ">> \o NumToString(view.y) \o <<" ">>
    \o NumToString(view.width) \o <<" ">> \o NumToString(view.height)

\* the elements of one group node: its background and, with a label, a text
DrawGroup(node) ==
    <<[el |-> "rect", layer |-> "group", node |-> node]>>
    \o (IF Truthy(Prop(node, <<"label">>))
        THEN <<[el |-> "text", layer |-> "group", node |-> node,
                text |-> Prop(node, <<"label">>)]>>
        ELSE <<>>)

arrowSize == Num(8)

\* edgesGroup.insert("rect", ".canvas-edge-label"): the new element goes
\* before the first label text of the group
InsertLabelRect(els, rect) ==
    LET labels == {i \in 1..Len(els) : els[i].el = "text"}
        first == CHOOSE i \in labels : \A j \in labels : i <= j
    IN  SubSeq(els, 1, first - 1) \o <<rect>> \o SubSeq(els, first, Len(els))

\* the edges loop from edge i on; els are the children of edgesGroup so far.
\* The result is [threw, els]
RECURSIVE DrawEdges(_, _, _, _)
DrawEdges(nodes, edges, i, els) ==
    IF i > Len(edges) THEN [threw |-> FALSE, els |-> els]
    ELSE IF Nullish(edges[i]) THEN [threw |-> TRUE, els |-> els]
    ELSE
      LET edge == edges[i]
          fromNode == NodeMapGet(nodes, Prop(edge, <<"fromNode">>))
          toNode == NodeMapGet(nodes, Prop(edge, <<"toNode">>))
          from == getNodeAnchor(fromNode, Prop(edge, <<"fromSide">>))
          to == getNodeAnchor(toNode, Prop(edge, <<"toSide">>))
          line == [el |-> "line", layer |-> "edge", edge |-> edge,
                   from |-> from, to |-> to]
          polygon == [el |-> "polygon", layer |-> "edge", edge |-> edge,
                      points |-> arrowheadPoints(from, to, arrowSize)]
          text == [el |-> "text", layer |-> "edge", edge |-> edge,
                   text |-> Prop(edge, <<"label">>)]
          rect == [el |-> "rect", layer |-> "edge", edge |-> edge]
          drawn == els \o <<line, polygon>>
      IN  IF Falsy(fromNode) \/ Falsy(toNode)
          THEN DrawEdges(nodes, edges, i + 1, els)
          ELSE IF Truthy(Prop(edge, <<"label">>))
          THEN DrawEdges(nodes, edges, i + 1,
                         InsertLabelRect(Append(drawn, text), rect))
          ELSE DrawEdges(nodes, edges, i + 1, drawn)

\* the part of a path after its last "/"
LastSegment(path) ==
    LET slashes == {i \in 1..Len(path) : path[i] = "/"}
        last == IF slashes = {} THEN 0
                ELSE CHOOSE i \in slashes : \A j \in slashes : j <= i
    IN  SubSeq(path, last + 1, Len(path))

\* [threw, v]: the label of a node; reading it throws when a file value
\* that is not a string is asked to replace its extension
getNodeLabel(node) ==
    LET type == Prop(node, <<"type">>)
        file == Prop(node, <<"file">>)
        or(v) == IF Truthy(v) THEN v ELSE JStr(<<>>)
        stem == IF EndsWith(file.s, <<".", "m", "d">>) THEN DropLast(file.s, 3)
                ELSE file.s
        ret(v) == [threw |-> FALSE, v |-> v]
    IN  CASE type = JStr(<<"text">>) -> ret(or(Prop(node, <<"text">>)))
          [] type = JStr(<<"file">>) ->
                IF Falsy(file) THEN ret(JStr(<<>>))
                ELSE IF file.t # "str" THEN [threw |-> TRUE, v |-> Undefined]
                ELSE IF LastSegment(stem) # <<>> THEN ret(JStr(LastSegment(stem)))
                ELSE ret(file)
          [] type = JStr(<<"link">>) -> ret(or(Prop(node, <<"url">>)))
          [] type = JStr(<<"group">>) -> ret(or(Prop(node, <<"label">>)))
          [] OTHER -> ret(JStr(<<>>))

\* a > b; false when either is NaN
NGt(a, b) == a # NaN /\ b # NaN /\ ~NLeq(a, b)

\* text.split(/\s+/): the pieces of text between its runs of white space.
\* A text that starts (ends) with white space has an empty first (last)
\* piece, and the empty text has one empty piece
SplitWhitespace(text) ==
    LET isWs(i) == text[i] \in TrimWhitespace
        starts == {i \in 1..Len(text) : ~isWs(i) /\ (i = 1 \/ isWs(i - 1))}
        endOf(i) == CHOOSE j \in i..Len(text) :
                        /\ \A k \in i..j : ~isWs(k)
                        /\ (j = Len(text) \/ isWs(j + 1))
        nth(k) == CHOOSE i \in starts : Cardinality({j \in starts : j <= i}) = k
        pieces == [k \in 1..Cardinality(starts) |-> SubSeq(text, nth(k), endOf(nth(k)))]
    IN  IF text = <<>> THEN << <<>> >>
        ELSE (IF isWs(1) THEN << <<>> >> ELSE <<>>)
             \o pieces
             \o (IF isWs(Len(text)) THEN << <<>> >> ELSE <<>>)

\* tspan.node().getComputedTextLength() of a tspan holding str, in a font
\* that gives every character its advance width
RECURSIVE getComputedTextLength(_, _)
getComputedTextLength(font, str) ==
    IF str = <<>> THEN 0
    ELSE font[Head(str)] + getComputedTextLength(font, Tail(str))

lineHeight == 12    \* 1.2 em, in tenths of an em

\* the loop that starts a new line and leaves the word on the old one too
RECURSIVE WrapLoop_KeepsOverflow(_, _, _, _, _, _, _)
WrapLoop_KeepsOverflow(words, i, line, texts, lineNumber, font, maxWidth) ==
    IF i > Len(words) THEN [texts |-> texts, lineNumber |-> lineNumber]
    ELSE
      LET pushed == Append(line, words[i])
          shown == [texts EXCEPT ![Len(texts)] = Join(pushed, <<" ">>)]
      IN  IF /\ NGt(Num(getComputedTextLength(font, Join(pushed, <<" ">>))), maxWidth)
             /\ Len(pushed) > 1
          THEN WrapLoop_KeepsOverflow(words, i + 1, <<words[i]>>,
                        Append(shown, words[i]),
                        lineNumber + 1, font, maxWidth)
          ELSE WrapLoop_KeepsOverflow(words, i + 1, pushed, shown, lineNumber, font, maxWidth)

\* the loop of wrapText from word i on: line holds the words of the current
\* tspan, texts the text of every tspan appended so far (the current one
\* last), lineNumber the number of line breaks made
RECURSIVE WrapLoop(_, _, _, _, _, _, _)
WrapLoop(words, i, line, texts, lineNumber, font, maxWidth) ==
    IF i > Len(words) THEN [texts |-> texts, lineNumber |-> lineNumber]
    ELSE
      LET pushed == Append(line, words[i])
          shown == [texts EXCEPT ![Len(texts)] = Join(pushed, <<" ">>)]
      IN  IF /\ NGt(Num(getComputedTextLength(font, Join(pushed, <<" ">>))), maxWidth)
             /\ Len(pushed) > 1
          THEN WrapLoop(words, i + 1, <<words[i]>>,
                        Append([texts EXCEPT ![Len(texts)] = Join(line, <<" ">>)],
                               words[i]),
                        lineNumber + 1, font, maxWidth)
          ELSE WrapLoop(words, i + 1, pushed, shown, lineNumber, font, maxWidth)

\* the tspans wrapText appends to a fresh text element, in order: the text
\* of each and its dy in tenths of an em.  The first tspan's dy is set last,
\* to -((totalLines - 1) * lineHeight) / 2
wrapText(text, maxWidth, font) ==
    LET wrapped == WrapLoop(SplitWhitespace(text), 1, <<>>, << <<>> >>, 0, font, maxWidth)
        totalLines == wrapped.lineNumber + 1
    IN  [k \in 1..Len(wrapped.texts) |->
            [text |-> wrapped.texts[k],
             dy |-> IF k = 1 THEN -(((totalLines - 1) * lineHeight) \div 2)
                    ELSE lineHeight]]

\* whether drawing a regular node throws: getNodeLabel throws, or wrapText
\* is handed a label that is not a string
NodeThrows(node) ==
    \/ getNodeLabel(node).threw
    \/ Truthy(getNodeLabel(node).v) /\ getNodeLabel(node).v.t # "str"

\* resolveFileUrl of the interactive renderer
inlineResolveFileUrl(baseUrl, filePath) ==
    LET normalized == IF EndsWith(baseUrl, <<"/">>) THEN DropLast(baseUrl, 1) ELSE baseUrl
        stripped == IF EndsWith(filePath, <<".", "m", "d">>) THEN DropLast(filePath, 3)
                    ELSE filePath
    IN  normalized \o <<"/">> \o stripped

\* the listeners of the g element of a file node with a file: a click
\* assigns window.location.href, entering and leaving set the stroke width
FileListeners(node, baseUrl) ==
    [click |-> [do |-> "location.href", url |-> inlineResolveFileUrl(baseUrl, Prop(node, <<"file">>).s)],
     mouseenter |-> 3, mouseleave |-> 2]

\* the listeners of the g element of a link node with a url: a click calls
\* window.open(node.url, "_blank")
LinkListeners(node) ==
    [click |-> [do |-> "window.open", url |-> Prop(node, <<"url">>), target |-> "_blank"],
     mouseenter |-> 3, mouseleave |-> 2]

\* a drawn element as a child of a g element with the pointer cursor and
\* the given listeners
InPointerG(element, listeners) ==
    [k \in DOMAIN element \cup {"cursor", "on"} |->
        IF k = "cursor" THEN "pointer" ELSE IF k = "on" THEN listeners ELSE element[k]]

\* the elements inside the g of a regular node that does not listen to the
\* pointer
DrawNode_NoListeners(node, baseUrl) ==
    <<[el |-> "rect", layer |-> "node", node |-> node]>>
    \o (IF ~getNodeLabel(node).threw /\ Truthy(getNodeLabel(node).v)
        THEN <<[el |-> "text", layer |-> "node", node |-> node,
                text |-> getNodeLabel(node).v,
                maxWidth |-> NSub(Coord(node, <<"width">>), Num(16))]>>
        ELSE <<>>)

\* the elements inside the g of one regular node: its rectangle and, with a
\* label, a text wrapped to the node's width less 16; a file node with a
\* file and a link node with a url are drawn in a g that listens to the
\* pointer.  A node that throws has no listeners yet
DrawNode(node, baseUrl) ==
    LET rect == [el |-> "rect", layer |-> "node", node |-> node]
        text == [el |-> "text", layer |-> "node", node |-> node,
                 text |-> getNodeLabel(node).v,
                 maxWidth |-> NSub(Coord(node, <<"width">>), Num(16))]
        els == IF ~getNodeLabel(node).threw /\ Truthy(getNodeLabel(node).v)
               THEN <<rect, text>> ELSE <<rect>>
    IN  IF NodeThrows(node) THEN els
        ELSE IF Prop(node, <<"type">>) = JStr(<<"file">>) /\ Truthy(Prop(node, <<"file">>))
        THEN [i \in 1..Len(els) |-> InPointerG(els[i], FileListeners(node, baseUrl))]
        ELSE IF Prop(node, <<"type">>) = JStr(<<"link">>) /\ Truthy(Prop(node, <<"url">>))
        THEN [i \in 1..Len(els) |-> InPointerG(els[i], LinkListeners(node))]
        ELSE els

\* the regular nodes loop: [threw, els], stopping at the first node that
\* throws
DrawNodes(regularNodes, baseUrl) ==
    LET bad == {i \in 1..Len(regularNodes) : NodeThrows(regularNodes[i])}
        stop == IF bad = {} THEN Len(regularNodes)
                ELSE CHOOSE i \in bad : \A j \in bad : i <= j
    IN  [threw |-> bad # {},
         els |-> Flatten([i \in 1..stop |-> DrawNode(regularNodes[i], baseUrl)])]

\* the children of the zoom group with the nodes in one layer, in the
\* order of the document
zoomGroupChildren_OneLayer(nodes, edgeEls, baseUrl) ==
    edgeEls \o Flatten([i \in 1..Len(nodes) |->
                          IF Prop(nodes[i], <<"type">>) = JStr(<<"group">>)
                          THEN DrawGroup(nodes[i]) ELSE DrawNode(nodes[i], baseUrl)])

\* the children of the zoom group once everything is drawn: the group
\* nodes, then the edges group, then the nodes group
zoomGroupChildren(nodes, edgeEls, baseUrl) ==
    LET isGroup(n) == Prop(n, <<"type">>) = JStr(<<"group">>)
        isRegular(n) == ~isGroup(n)
        groupNodes == SelectSeq(nodes, isGroup)
        regularNodes == SelectSeq(nodes, isRegular)
    IN  Flatten([i \in 1..Len(groupNodes) |-> DrawGroup(groupNodes[i])])
        \o edgeEls
        \o DrawNodes(regularNodes, baseUrl).els

renderCanvasGraph(html, canvasData, baseUrl) ==
    LET container == GetContainerEl(html)
        nodes == Prop(canvasData, <<"nodes">>)
        edges == Prop(canvasData, <<"edges">>)
        ns == Elements(nodes)
        viewBox == ViewBoxAttr(ViewOf(ns))
        isGroup(n) == Prop(n, <<"type">>) = JStr(<<"group">>)
        isRegular(n) == ~isGroup(n)
        groupEls == Flatten([i \in 1..Len(SelectSeq(ns, isGroup)) |->
                               DrawGroup(SelectSeq(ns, isGroup)[i])])
        drawnEdges == DrawEdges(ns, Elements(edges), 1, <<>>)
    IN  IF container = 0 THEN NoGraph
        ELSE IF Falsy(nodes) \/ Falsy(edges) THEN NoGraph
        \* for (const node of nodes) nodeMap.set(node.id, node)
        ELSE IF ~Iterable(nodes) \/ \E i \in 1..Len(ns) : Nullish(ns[i])
        THEN [threw |-> TRUE, cleared |-> FALSE, viewBox |-> <<>>, scene |-> <<>>]
        \* nodes.filter on a string
        ELSE IF nodes.t # "arr"
        THEN [threw |-> TRUE, cleared |-> TRUE, viewBox |-> viewBox, scene |-> <<>>]
        \* for (const edge of edges)
        ELSE IF ~Iterable(edges)
        THEN [threw |-> TRUE, cleared |-> TRUE, viewBox |-> viewBox, scene |-> groupEls]
        ELSE IF drawnEdges.threw
        THEN [threw |-> TRUE, cleared |-> TRUE, viewBox |-> viewBox,
              scene |-> groupEls \o drawnEdges.els]
        ELSE [threw |-> DrawNodes(SelectSeq(ns, isRegular), baseUrl).threw,
              cleared |-> TRUE, viewBox |-> viewBox,
              scene |-> zoomGroupChildren(ns, drawnEdges.els, baseUrl)]

\* the call initCanvasGraph ends in, given what it recovered from the page
MountCanvasGraph(html, recovered, baseUrl) ==
    IF recovered.mounted THEN renderCanvasGraph(html, recovered.canvasData, baseUrl)
    ELSE NoGraph

(***************************************************************************)
(* Source files given to the pipeline.                                     *)
(***************************************************************************)
SrcKV(k, v) == Quoted(<<k>>) \o <<":">> \o v
SrcObj(members) == <<"{">> \o Join(members, <<",">>) \o <<"}">>
SrcArr(items) == <<"[">> \o Join(items, <<",">>) \o <<"]">>

SrcBox(x, y, w, h) ==
    <<SrcKV("x", x), SrcKV("y", y), SrcKV("width", w), SrcKV("height", h)>>

SrcNode(id, type, box, rest) ==
    SrcObj(<<SrcKV("id", Quoted(id)), SrcKV("type", Quoted(type))>> \o box \o rest)

\* a text node whose text holds the five HTML-significant characters
NodeA ==
    SrcNode(<<"a">>, <<"text">>, SrcBox(<<"0">>, <<"0">>, <<"1", "0">>, <<"5">>),
            <<SrcKV("text", Quoted(<<"<", "script", ">", "&", "\\", "\"", "'">>))>>)
\* a file node with an .md path and an unrecognized key
NodeB ==
    SrcNode(<<"b">>, <<"file">>, SrcBox(<<"2", "0">>, <<"0">>, <<"1", "0">>, <<"5">>),
            <<SrcKV("file", Quoted(<<"p", "/", "q", ".", "m", "d">>)),
              SrcKV("zIndex", <<"1">>)>>)
\* a group that reuses the id "a"; its label closes a script element
NodeG ==
    SrcNode(<<"a">>, <<"group">>, SrcBox(<<"-", "5">>, <<"-", "5">>, <<"4", "0">>, <<"2", "0">>),
            <<SrcKV("label", Quoted(<<"<", "/", "script", ">">>))>>)
\* a link node
NodeL ==
    SrcNode(<<"c", "&">>, <<"link">>, SrcBox(<<"0">>, <<"9">>, <<"1", "0">>, <<"5">>),
            <<SrcKV("url", Quoted(<<"h", "?", "x", "&", "y">>))>>)
\* a text node without text, placed beyond the range of a double
NodeI ==
    SrcNode(<<"i">>, <<"text">>, SrcBox(<<"1", "e", "9", "9", "9">>, <<"0">>, <<"1", "0">>, <<"5">>),
            <<>>)
\* structurally invalid nodes
NodeNull == <<"null">>
NodeBadType ==
    SrcNode(<<"d">>, <<"<", "b", ">">>, SrcBox(<<"0">>, <<"0">>, <<"1">>, <<"1">>), <<>>)
NodeBadX ==
    SrcNode(<<"e">>, <<"text">>, SrcBox(Quoted(<<"0">>), <<"0">>, <<"1">>, <<"1">>), <<>>)

NodeSamples == {NodeA, NodeB, NodeG, NodeL, NodeI, NodeNull, NodeBadType, NodeBadX}

SrcEdge(id, from, to, rest) ==
    SrcObj(<<SrcKV("id", Quoted(id)), SrcKV("fromNode", Quoted(from)),
             SrcKV("toNode", Quoted(to))>> \o rest)

EdgeAB ==
    SrcEdge(<<"e1">>, <<"a">>, <<"b">>,
            <<SrcKV("fromSide", Quoted(<<"right">>)),
              SrcKV("toSide", Quoted(<<"diagonal">>)),
              SrcKV("label", Quoted(<<"go", "<">>))>>)
EdgeAA == SrcEdge(<<"e2">>, <<"a">>, <<"a">>, <<>>)
EdgeToGhost == SrcEdge(<<"e3">>, <<"a">>, <<"ghost">>, <<>>)
EdgeBothGhost == SrcEdge(<<"e4">>, <<"nobody">>, <<"ghost">>, <<>>)
\* structurally invalid edges
EdgeNoTo == SrcObj(<<SrcKV("id", Quoted(<<"e5">>)), SrcKV("fromNode", Quoted(<<"a">>))>>)
EdgeString == Quoted(<<"edge">>)

EdgeSamples == {EdgeAB, EdgeAA, EdgeToGhost, EdgeBothGhost, EdgeNoTo, EdgeString}

SeqsUpTo(S, n) == UNION {[1..k -> S] : k \in 0..n}

SrcDoc(nodes, edges) ==
    SrcObj(<<SrcKV("nodes", SrcArr(nodes)), SrcKV("edges", SrcArr(edges))>>)

\* canvas files: every node list with a few edge lists, and every edge list
\* with a few node lists
CanvasSources ==
    {SrcDoc(ns, es) : ns \in SeqsUpTo(NodeSamples, MaxNodes),
                      es \in {<<>>, <<EdgeAB, EdgeToGhost>>}}
    \cup
    {SrcDoc(ns, es) : ns \in {<<NodeA, NodeB>>, <<NodeB>>},
                      es \in SeqsUpTo(EdgeSamples, MaxEdges)}

EmptyDoc == SrcDoc(<<>>, <<>>)

\* other files the build hands to the transformer
OtherSources ==
    { <<>>,
      <<"#", " ", "Session", "\n">>,
      <<"{", "{", "{">>,
      <<"null">>,
      <<"[", "]">>,
      <<"4", "2">>,
      SrcObj(<<>>),
      SrcObj(<<SrcKV("nodes", SrcArr(<<>>))>>),
      SrcObj(<<SrcKV("nodes", SrcObj(<<>>)), SrcKV("edges", SrcArr(<<>>))>>),
      SrcObj(<<SrcKV("nodes", SrcArr(<<>>)), SrcKV("edges", <<"null">>)>>),
      SrcObj(<<SrcKV("nodes", SrcArr(<<>>)), SrcKV("edges", SrcArr(<<>>)),
               SrcKV("version", <<"1">>)>>),
      <<" ", "\n">> \o SrcDoc(<<NodeB>>, <<>>) \o <<"\n">>,
      <<"BOM">> \o EmptyDoc,
      EmptyDoc \o <<"}">> }

\* a node and an edge whose required strings are empty
NodeEmptyId ==
    SrcNode(<<>>, <<"text">>, SrcBox(<<"0">>, <<"0">>, <<"1">>, <<"1">>), <<>>)
EdgeEmptyIds == SrcEdge(<<>>, <<>>, <<>>, <<>>)
\* nodes that fail several checks at once
NodeManyBad ==
    SrcObj(<<SrcKV("type", Quoted(<<"bogus">>)), SrcKV("x", Quoted(<<"0">>))>>)
NodeEnumAndY ==
    SrcObj(<<SrcKV("id", Quoted(<<"f">>)), SrcKV("type", Quoted(<<"bogus">>)),
             SrcKV("x", <<"0">>), SrcKV("width", <<"1">>), SrcKV("height", <<"1">>)>>)
NodeTypeNumber ==
    SrcObj(<<SrcKV("id", Quoted(<<"g">>)), SrcKV("type", <<"7">>),
             SrcKV("x", <<"0">>), SrcKV("y", <<"0">>), SrcKV("width", <<"1">>)>>)
\* a node and an edge whose optional fields have the wrong type, with
\* unrecognized keys
NodeOddOptionals ==
    SrcNode(<<"n">>, <<"text">>, SrcBox(<<"3">>, <<"4">>, <<"6">>, <<"2">>),
            <<SrcKV("text", <<"4", "2">>), SrcKV("label", Quoted(<<"L">>)),
              SrcKV("color", <<"null">>), SrcKV("locked", <<"true">>)>>)
EdgeOddOptionals ==
    SrcEdge(<<"e6">>, <<"n">>, <<"b">>,
            <<SrcKV("fromSide", <<"5">>), SrcKV("toSide", Quoted(<<"left">>)),
              SrcKV("label", <<"7">>), SrcKV("color", Quoted(<<"red">>)),
              SrcKV("weight", <<"3">>)>>)
EdgeBadSide == SrcEdge(<<"e7">>, <<"b">>, <<"n">>, <<SrcKV("toSide", Quoted(<<"up">>))>>)

\* documents for the corner cases of validation
EdgeCaseSources ==
    { SrcDoc(<<NodeEmptyId>>, <<EdgeEmptyIds>>),
      SrcDoc(<<NodeB, NodeEnumAndY, NodeManyBad>>, <<EdgeString>>),
      SrcDoc(<<NodeManyBad, NodeEnumAndY>>, <<>>),
      SrcDoc(<<NodeTypeNumber>>, <<EdgeAB>>),
      SrcDoc(<<SrcArr(<<>>)>>, <<>>),
      SrcDoc(<<NodeBadX>>, <<EdgeString>>),
      SrcDoc(<<NodeA, NodeB>>, <<EdgeToGhost, EdgeAB, EdgeNoTo, EdgeString>>),
      SrcDoc(<<NodeB>>, <<EdgeBothGhost, SrcObj(<<>>), EdgeToGhost>>),
      SrcDoc(<<NodeB, NodeOddOptionals>>, <<EdgeOddOptionals, EdgeBadSide>>),
      SrcObj(<<SrcKV("version", <<"1">>),
               SrcKV("nodes", SrcArr(<<NodeB, NodeOddOptionals>>)),
               SrcKV("meta", SrcObj(<<SrcKV("nodes", <<"0">>)>>)),
               SrcKV("edges", SrcArr(<<EdgeOddOptionals>>))>>) }

\* a group that is listed between two other nodes, and edges with and
\* without labels, with and without length
NodeH ==
    SrcNode(<<"g">>, <<"group">>, SrcBox(<<"-", "5">>, <<"-", "5">>, <<"4", "1">>, <<"2", "0">>),
            <<SrcKV("label", Quoted(<<"Grp">>))>>)
EdgeBN ==
    SrcEdge(<<"e8">>, <<"b">>, <<"n">>,
            <<SrcKV("fromSide", Quoted(<<"right">>)), SrcKV("toSide", Quoted(<<"left">>)),
              SrcKV("label", Quoted(<<"x">>))>>)
EdgeNN == SrcEdge(<<"e9">>, <<"n">>, <<"n">>, <<>>)
EdgeNG ==
    SrcEdge(<<"e10">>, <<"n">>, <<"g">>,
            <<SrcKV("toSide", Quoted(<<"top">>)), SrcKV("label", Quoted(<<"y">>))>>)
EdgeNNSides ==
    SrcEdge(<<"e11">>, <<"n">>, <<"n">>,
            <<SrcKV("fromSide", Quoted(<<"top">>)), SrcKV("toSide", Quoted(<<"bottom">>))>>)

\* two nodes without extent, 1e-200 apart, and an edge between them
NodeP == SrcNode(<<"p">>, <<"text">>, SrcBox(<<"0">>, <<"0">>, <<"0">>, <<"0">>), <<>>)
NodeQ ==
    SrcNode(<<"q">>, <<"text">>,
            SrcBox(<<"1", "e", "-", "2", "0", "0">>, <<"0">>, <<"0">>, <<"0">>), <<>>)
EdgePQ == SrcEdge(<<"e12">>, <<"p">>, <<"q">>, <<>>)

\* a node whose width is negative
NodeNeg ==
    SrcNode(<<"m">>, <<"text">>,
            SrcBox(<<"5", "0">>, <<"5", "0">>, <<"-", "2", "0", "0">>, <<"3">>), <<>>)

\* a file node without a file and a link node with an empty url
NodeFileBare ==
    SrcNode(<<"fb">>, <<"file">>, SrcBox(<<"0">>, <<"0">>, <<"9">>, <<"9">>), <<>>)
NodeLinkBare ==
    SrcNode(<<"lb">>, <<"link">>, SrcBox(<<"0">>, <<"9">>, <<"9">>, <<"9">>),
            <<SrcKV("url", Quoted(<<>>))>>)

\* an edge whose label is the empty string
EdgeEmptyLabel ==
    SrcEdge(<<"e13">>, <<"b">>, <<"b">>, <<SrcKV("label", Quoted(<<>>))>>)

\* the text of an empty canvas document, as the value of a JSON string
CanvasShapedText ==
    <<"{", "\\", "\"", "nodes", "\\", "\"", ":", "[", "]", ",",
      "\\", "\"", "edges", "\\", "\"", ":", "[", "]", "}">>
\* a text node whose id and text are canvas documents themselves
NodeJson ==
    SrcNode(CanvasShapedText, <<"text">>, SrcBox(<<"0">>, <<"0">>, <<"9">>, <<"9">>),
            <<SrcKV("text", Quoted(CanvasShapedText))>>)
\* an edge from and to a node that does not exist, named by a canvas document
EdgeJsonGhost == SrcEdge(<<"e14">>, CanvasShapedText, CanvasShapedText, <<>>)

\* documents for the interactive graph
GraphSources ==
    { SrcDoc(<<NodeJson>>, <<>>),
      SrcDoc(<<NodeB, NodeJson>>, <<EdgeJsonGhost>>),
      SrcDoc(<<NodeJson, NodeNull>>, <<>>),
      SrcDoc(<<NodeB, NodeH, NodeOddOptionals>>, <<EdgeBN, EdgeNN, EdgeNG, EdgeNNSides>>),
      SrcDoc(<<NodeB>>, <<EdgeEmptyLabel>>),
      SrcDoc(<<NodeFileBare, NodeLinkBare, NodeB>>, <<>>),
      SrcDoc(<<NodeNeg, NodeB>>, <<>>),
      SrcDoc(<<NodeP, NodeQ>>, <<EdgePQ>>),
      SrcDoc(<<NodeH>>, <<EdgeNN>>),
      SrcDoc(<<NodeL, NodeH, NodeA>>, <<>>) }

\* a page that was not written by the renderer: a container with static
\* content or none, then a payload element or none
Page(container, payload) ==
    (IF container THEN <<ContainerOpen, "static", "</div>", "\n">> ELSE <<"\n">>)
    \o payload

Payload(text) == <<ScriptOpen>> \o text \o <<"</script>">>

PayloadDoc(nodes, edges) ==
    Payload(SrcObj(<<SrcKV("nodes", nodes), SrcKV("edges", edges)>>))

NodeFileNumber ==
    SrcNode(<<"f">>, <<"file">>, SrcBox(<<"0">>, <<"0">>, <<"1">>, <<"1">>),
            <<SrcKV("file", <<"7">>)>>)

\* pages the transformer passes through unchanged
PageSources ==
    { Page(TRUE, PayloadDoc(Quoted(<<"a", "b">>), SrcArr(<<>>))),
      Page(TRUE, PayloadDoc(<<"7">>, SrcArr(<<>>))),
      Page(TRUE, PayloadDoc(SrcArr(<<"null">>), SrcArr(<<>>))),
      Page(TRUE, PayloadDoc(SrcArr(<<SrcObj(<<SrcKV("id", Quoted(<<"n">>))>>)>>),
                            SrcArr(<<>>))),
      Page(TRUE, PayloadDoc(SrcArr(<<>>), SrcObj(<<>>))),
      Page(TRUE, PayloadDoc(SrcArr(<<NodeB>>), SrcArr(<<"null">>))),
      Page(TRUE, PayloadDoc(SrcArr(<<NodeB, NodeFileNumber>>), SrcArr(<<>>))),
      Page(TRUE, PayloadDoc(SrcArr(<<>>), <<"0">>)),
      Page(TRUE, Payload(SrcArr(<<"1">>))),
      Page(TRUE, Payload(<<"{", "\"", "nodes", "\"", ":", "[">>)),
      Page(TRUE, <<>>),
      Page(FALSE, PayloadDoc(SrcArr(<<NodeB>>), SrcArr(<<>>))) }

Sources ==
    CanvasSources \cup OtherSources \cup EdgeCaseSources \cup GraphSources \cup PageSources

BaseUrls == {Undefined, JStr(<<"h", "/", "w">>), JStr(<<"h", "/", "w", "/">>)}

\* the content of the base-url meta element of the document the page is
\* loaded in; undefined when there is none
Metas == {Undefined, JStr(<<"m", "/">>)}

(***************************************************************************)
(* State: one build of one source file, then the page load.                *)
(***************************************************************************)
VARIABLES
    src,         \* the text of the source file
    cfgBaseUrl,  \* cfg.configuration.baseUrl: a string or undefined
    pc,          \* how far the build has come
    result,      \* parseCanvasData(src)
    serialized,  \* serializeCanvasData(result.data)
    reparsed,    \* parseCanvasData(serialized)
    html,        \* renderCanvasToHtml(result.data, baseUrl) or renderCanvasError
    out,         \* textTransform(ctx, src)
    mount,       \* what initCanvasGraph recovers from the page `out`
    graph,       \* what the page shows after initCanvasGraph ran on it
    mountBaseUrl, \* const baseUrl of initCanvasGraph, once it is computed
    clicked,     \* what the last click on the graph did
    wrapLabel,   \* a label handed to wrapText
    wrapNode,    \* the node the label belongs to
    wrapFont,    \* the advance width of every character in the page's font
    tspans,      \* the tspans of the text element wrapText is handed
    build        \* the files of a build that handles several files

pageVars == <<src, cfgBaseUrl, pc, result, serialized, reparsed, html, out, mount, graph,
              mountBaseUrl, clicked>>
wrapVars == <<wrapLabel, wrapNode, wrapFont, tspans>>
vars == <<pageVars, wrapVars, build>>

None == [none |-> TRUE]

Init ==
    /\ src \in Sources
    /\ cfgBaseUrl \in BaseUrls
    /\ pc = "start"
    /\ result = None
    /\ serialized = <<>>
    /\ reparsed = None
    /\ html = <<>>
    /\ out = <<>>
    /\ mount = None
    /\ graph = None
    /\ mountBaseUrl = None
    /\ clicked = None
    /\ wrapLabel = None /\ wrapNode = None /\ wrapFont = None /\ tspans = <<>>
    /\ build = None

ParseCanvasData ==
    /\ pc = "start"
    /\ result' = parseCanvasData(src)
    /\ pc' = "parsed"
    /\ UNCHANGED <<src, cfgBaseUrl, serialized, reparsed, html, out, mount, graph, mountBaseUrl, clicked,
                 wrapVars, build>>

SerializeCanvasData ==
    /\ pc = "parsed" /\ result.ok
    /\ serialized' = serializeCanvasData(result.data)
    /\ pc' = "serialized"
    /\ UNCHANGED <<src, cfgBaseUrl, result, reparsed, html, out, mount, graph, mountBaseUrl, clicked,
                 wrapVars, build>>

Reparse ==
    /\ pc = "serialized"
    /\ reparsed' = parseCanvasData(serialized)
    /\ pc' = "reparsed"
    /\ UNCHANGED <<src, cfgBaseUrl, result, serialized, html, out, mount, graph, mountBaseUrl, clicked,
                 wrapVars, build>>

RenderCanvasToHtml ==
    /\ pc = "reparsed"
    /\ html' = renderCanvasToHtml(result.data, OrEmpty(cfgBaseUrl))
    /\ pc' = "rendered"
    /\ UNCHANGED <<src, cfgBaseUrl, result, serialized, reparsed, out, mount, graph, mountBaseUrl, clicked,
                 wrapVars, build>>

RenderCanvasError ==
    /\ pc = "parsed" /\ ~result.ok
    /\ html' = renderCanvasError(result.error)
    /\ pc' = "rendered"
    /\ UNCHANGED <<src, cfgBaseUrl, result, serialized, reparsed, out, mount, graph, mountBaseUrl, clicked,
                 wrapVars, build>>

TextTransform ==
    /\ pc = "rendered"
    /\ out' = textTransform(cfgBaseUrl, src)
    /\ pc' = "transformed"
    /\ UNCHANGED <<src, cfgBaseUrl, result, serialized, reparsed, html, mount, graph, mountBaseUrl, clicked,
                 wrapVars, build>>

\* the page `out` is loaded in a document with or without a base-url meta
\* element
InitCanvasGraph ==
    /\ pc = "transformed"
    /\ mount' = initCanvasGraph(out)
    /\ \E meta \in Metas :
          /\ mountBaseUrl' = IF mount'.mounted THEN PageBaseUrl(meta) ELSE None
          /\ graph' = MountCanvasGraph(out, mount', PageBaseUrl(meta))
    /\ pc' = "loaded"
    /\ UNCHANGED <<src, cfgBaseUrl, result, serialized, reparsed, html, out, clicked,
                   wrapVars, build>>

\* a click on an element drawn inside a g that listens to clicks
Click ==
    /\ pc = "loaded"
    /\ \E i \in 1..Len(graph.scene) :
          /\ "on" \in DOMAIN graph.scene[i]
          /\ clicked' = graph.scene[i].on.click
    /\ pc' = "clicked"
    /\ UNCHANGED <<src, cfgBaseUrl, result, serialized, reparsed, html, out, mount, graph,
                   mountBaseUrl, wrapVars, build>>

Next ==
    \/ ParseCanvasData
    \/ SerializeCanvasData
    \/ Reparse
    \/ RenderCanvasToHtml
    \/ RenderCanvasError
    \/ TextTransform
    \/ InitCanvasGraph
    \/ Click

Spec == Init /\ [][Next]_vars

(***************************************************************************)
(* State: one label wrapped into the text element of a regular node.       *)
(***************************************************************************)
MaxLabel == 5

\* no file is being built
NoPage ==
    /\ src = <<>> /\ cfgBaseUrl = Undefined /\ pc = "idle"
    /\ result = None /\ serialized = <<>> /\ reparsed = None
    /\ html = <<>> /\ out = <<>> /\ mount = None /\ graph = None
    /\ mountBaseUrl = None /\ clicked = None

\* labels: getNodeLabel returned a non-empty string
Labels ==
    UNION {[1..k -> {"a", "b", " "}] : k \in 1..MaxLabel}
    \cup {<<"a", "\n", "b">>, <<"a", " ", "\n", "b">>, <<"\t", "a", "b">>}

\* node.width as the payload holds it: a number, or null where the build
\* wrote a width beyond the range of a double
Widths == {JNum(Num(16)), JNum(Num(30)), JNum(Num(40)), JNull}

LabelChars == {"a", "b", " ", "\n", "\t"}

\* fonts: every character 7 wide; a proportional font; a text element that
\* is not rendered, where every length is 0
Fonts ==
    { [c \in LabelChars |-> 7],
      [c \in LabelChars |-> IF c = "a" THEN 5 ELSE IF c = "b" THEN 9 ELSE 3],
      [c \in LabelChars |-> 0] }

WrapInit ==
    /\ NoPage
    /\ build = None
    /\ wrapLabel \in Labels
    /\ wrapNode \in {JObj(<<[k |-> <<"width">>, v |-> w]>>) : w \in Widths}
    /\ wrapFont \in Fonts
    /\ tspans = <<>>

\* wrapText(_d3.select(this), label, node.width - 16)
WrapText ==
    /\ tspans = <<>>
    /\ tspans' = wrapText(wrapLabel, NSub(Coord(wrapNode, <<"width">>), Num(16)), wrapFont)
    /\ UNCHANGED <<pageVars, wrapLabel, wrapNode, wrapFont, build>>

WrapNext == WrapText

WrapSpec == WrapInit /\ [][WrapNext]_vars

(***************************************************************************)
(* A build that handles several files: the calls of the exported functions *)
(* on one file happen between the calls on another, in any order.  The     *)
(* functions are synchronous, so a call runs to its end before the next    *)
(* one starts.                                                             *)
(***************************************************************************)
Files == {"f1", "f2"}

\* the text of the files and the configured base URLs of the build
BuildSources ==
    { SrcDoc(<<NodeA, NodeB>>, <<EdgeAB, EdgeToGhost>>),
      SrcDoc(<<NodeB>>, <<EdgeBothGhost>>),
      SrcDoc(<<NodeBadType>>, <<>>),
      <<"#", " ", "Session", "\n">> }
BuildBaseUrls == {Undefined, JStr(<<"h", "/", "w">>)}

NotCalled == [done |-> FALSE]
Returned(value) == [done |-> TRUE, ret |-> value]

\* the module-level Sets of canvas-utils, constructed when the module loads
ModuleState == [VALID_NODE_TYPES |-> VALID_NODE_TYPES, VALID_SIDES |-> VALID_SIDES]

\* a file nothing was called on yet; doc is the document object a successful
\* parse constructs, which the later calls receive by reference
FreshFile(text, baseUrl) ==
    [src |-> text, cfg |-> baseUrl, doc |-> None, parsed |-> NotCalled,
     html |-> NotCalled, json |-> NotCalled, err |-> NotCalled, out |-> NotCalled]

BuildInit ==
    /\ NoPage
    /\ wrapLabel = None /\ wrapNode = None /\ wrapFont = None /\ tspans = <<>>
    /\ \E fs \in [Files -> {FreshFile(t, b) : t \in BuildSources, b \in BuildBaseUrls}] :
          build = [module |-> ModuleState, files |-> fs]

\* parseCanvasData whose warnings array lives at module level: a call
\* appends to what the earlier calls left in it
CallParseCanvasData_SharedWarnings ==
    \E k \in Files :
        LET f == build.files[k]
            ret == parseCanvasData(f.src)
            others == {j \in Files \ {k} : build.files[j].parsed.done}
            earlier == IF others = {} THEN <<>>
                       ELSE LET j == CHOOSE j \in others : TRUE
                                r == build.files[j].parsed.ret
                            IN  IF r.ok THEN r.warnings ELSE <<>>
            leaked == IF ret.ok THEN [ret EXCEPT !.warnings = earlier \o ret.warnings]
                      ELSE ret
        IN  /\ ~f.parsed.done
            /\ build' = [build EXCEPT
                            !.files[k].parsed = Returned(leaked),
                            !.files[k].doc = IF ret.ok THEN ret.data ELSE None]
            /\ UNCHANGED <<pageVars, wrapVars>>

\* parseCanvasData(raw) on the text of a file
CallParseCanvasData ==
    \E k \in Files :
        LET f == build.files[k]
            ret == parseCanvasData(f.src)
        IN  /\ ~f.parsed.done
            /\ build' = [build EXCEPT
                            !.files[k].parsed = Returned(ret),
                            !.files[k].doc = IF ret.ok THEN ret.data ELSE None]
            /\ UNCHANGED <<pageVars, wrapVars>>

\* renderCanvasToHtml(result.data, baseUrl) on the document of a file
CallRenderCanvasToHtml ==
    \E k \in Files :
        LET f == build.files[k]
        IN  /\ f.parsed.done /\ f.parsed.ret.ok /\ ~f.html.done
            /\ build' = [build EXCEPT
                            !.files[k].html =
                                Returned(renderCanvasToHtml(f.doc, OrEmpty(f.cfg)))]
            /\ UNCHANGED <<pageVars, wrapVars>>

\* serializeCanvasData(result.data) on the document of a file
CallSerializeCanvasData ==
    \E k \in Files :
        LET f == build.files[k]
        IN  /\ f.parsed.done /\ f.parsed.ret.ok /\ ~f.json.done
            /\ build' = [build EXCEPT
                            !.files[k].json = Returned(serializeCanvasData(f.doc))]
            /\ UNCHANGED <<pageVars, wrapVars>>

\* renderCanvasError(result.error) on the error of a failed parse
CallRenderCanvasError ==
    \E k \in Files :
        LET f == build.files[k]
        IN  /\ f.parsed.done /\ ~f.parsed.ret.ok /\ ~f.err.done
            /\ build' = [build EXCEPT
                            !.files[k].err = Returned(renderCanvasError(f.parsed.ret.error))]
            /\ UNCHANGED <<pageVars, wrapVars>>

\* textTransform(_ctx, src) on the text of a file
CallTextTransform ==
    \E k \in Files :
        LET f == build.files[k]
        IN  /\ ~f.out.done
            /\ build' = [build EXCEPT
                            !.files[k].out = Returned(textTransform(f.cfg, f.src))]
            /\ UNCHANGED <<pageVars, wrapVars>>

BuildNext ==
    \/ CallParseCanvasData
    \/ CallRenderCanvasToHtml
    \/ CallSerializeCanvasData
    \/ CallRenderCanvasError
    \/ CallTextTransform

BuildSpec == BuildInit /\ [][BuildNext]_vars

(***************************************************************************)
(* What the claims speak of.                                               *)
(***************************************************************************)
Built == pc # "start"
Rendered == pc \in {"rendered", "transformed", "loaded"}
Transformed == pc \in {"transformed", "loaded"}

\* the schema of section 3, stated on a parsed JSON value
NodeShapeOk(raw) ==
    /\ raw.t = "obj"
    /\ \A f \in {<<"id">>, <<"type">>} : Get(raw, f).t = "str"
    /\ \A f \in {<<"x">>, <<"y">>, <<"width">>, <<"height">>} : Get(raw, f).t = "num"
    /\ Get(raw, <<"type">>).s \in {<<"text">>, <<"file">>, <<"link">>, <<"group">>}

EdgeShapeOk(raw) ==
    /\ raw.t = "obj"
    /\ \A f \in {<<"id">>, <<"fromNode">>, <<"toNode">>} : Get(raw, f).t = "str"

TopLevelOk(v) ==
    /\ v.t = "obj"
    /\ Get(v, <<"nodes">>).t = "arr"
    /\ Get(v, <<"edges">>).t = "arr"

\* the JSON reading of every source text, and of every source text trimmed
SourceJson == [t \in Sources \cup {Trim(s) : s \in Sources} |-> JSONparse(t)]

\* p, the outcome of reading a text as JSON, is a value of the schema
ReadingConforms(p) ==
    /\ p.ok
    /\ TopLevelOk(p.v)
    /\ \A i \in 1..Len(Get(p.v, <<"nodes">>).a) :
          NodeShapeOk(Get(p.v, <<"nodes">>).a[i])
    /\ \A i \in 1..Len(Get(p.v, <<"edges">>).a) :
          EdgeShapeOk(Get(p.v, <<"edges">>).a[i])

ConformsToSchema(text) == ReadingConforms(SourceJson[text])

\* the source's node and edge arrays, for a text that conforms to the schema
SrcNodes(text) == Get(SourceJson[text].v, <<"nodes">>).a
SrcEdges(text) == Get(SourceJson[text].v, <<"edges">>).a
SrcNodeIds(text) == {Get(SrcNodes(text)[i], <<"id">>).s : i \in 1..Len(SrcNodes(text))}

\* a string with each of the five HTML-significant characters replaced by
\* its entity
Entity(c) ==
    CASE c = "&" -> <<"&", "amp", ";">>
      [] c = "<" -> <<"&", "lt", ";">>
      [] c = ">" -> <<"&", "gt", ";">>
      [] c = "\"" -> <<"&", "quot", ";">>
      [] c = "'" -> <<"&", "#039", ";">>
      [] OTHER -> <<c>>

HtmlEscaped(str) == Flatten([i \in 1..Len(str) |-> Entity(str[i])])

\* the ascending positions of s that hold atom a
Positions(s, a) ==
    LET P == {i \in 1..Len(s) : s[i] = a}
        Rank(i) == Cardinality({j \in P : j <= i})
    IN  [k \in 1..Cardinality(P) |-> CHOOSE i \in P : Rank(i) = k]

EdgeTriple(e) ==
    <<Get(e, <<"id">>).s, Get(e, <<"fromNode">>).s, Get(e, <<"toNode">>).s>>

C2_RoundTrip ==
    pc = "reparsed" => (reparsed.ok /\ reparsed.data = result.data)

(***************************************************************************)
(* C3.  Referential invariant: in the document of a successful parse each  *)
(* edge's fromNode and toNode are ids of nodes of that document.           *)
(***************************************************************************)
C3_EdgesReferToNodes ==
    (Built /\ result.ok) =>
        \A i \in 1..Len(DataEdges(result.data)) :
            LET e == DataEdges(result.data)[i]
                ids == {Get(DataNodes(result.data)[j], <<"id">>).s :
                            j \in 1..Len(DataNodes(result.data))}
            IN  /\ Get(e, <<"fromNode">>).s \in ids
                /\ Get(e, <<"toNode">>).s \in ids

C3_Witness ==
    /\ pc = "parsed"
    /\ result.ok
    /\ Len(DataEdges(result.data)) >= 1
    /\ Len(result.warnings) >= 1

(***************************************************************************)
(* C4.  Dangling-edge skip: when every node and edge is structurally       *)
(* valid the parse succeeds; the output edges are exactly the source edges *)
(* whose two endpoints are node ids, and each other edge yields one        *)
(* warning that names the edge's id and an endpoint of it that is missing. *)
(***************************************************************************)
C4_DanglingEdgesSkipped ==
    (Built /\ ConformsToSchema(src)) =>
        LET ids == SrcNodeIds(src)
            Kept(e) == Get(e, <<"fromNode">>).s \in ids /\ Get(e, <<"toNode">>).s \in ids
            Dangling(e) == ~Kept(e)
            kept == SelectSeq(SrcEdges(src), Kept)
            dropped == SelectSeq(SrcEdges(src), Dangling)
        IN  /\ result.ok
            /\ [i \in 1..Len(DataEdges(result.data)) |->
                    EdgeTriple(DataEdges(result.data)[i])]
               = [i \in 1..Len(kept) |-> EdgeTriple(kept[i])]
            /\ Len(result.warnings) = Len(dropped)
            /\ \A i \in 1..Len(dropped) :
                  /\ Contains(result.warnings[i].message,
                              Quoted(Get(dropped[i], <<"id">>).s))
                  /\ \E f \in {<<"fromNode">>, <<"toNode">>} :
                        /\ Get(dropped[i], f).s \notin ids
                        /\ Contains(result.warnings[i].message,
                                    f \o <<" ">> \o Quoted(Get(dropped[i], f).s))

C4_Witness ==
    /\ pc = "parsed"
    /\ ConformsToSchema(src)
    /\ result.ok
    /\ Len(DataEdges(result.data)) = 1
    /\ Len(result.warnings) = 1
    /\ Contains(result.warnings[1].message, <<"ghost">>)

(***************************************************************************)
(* C5.  Escaping: no "<", ">", "'" or bare "&" that comes from a node or   *)
(* edge field or from an error message appears unescaped anywhere in the   *)
(* fragment returned by renderCanvasToHtml or renderCanvasError.  (Every   *)
(* chunk of template markup is an atom of its own, so a one-character atom *)
(* "<", ">", "'" or "&" in the fragment is a character of the input; the   *)
(* double quote is left out because the payload's own JSON syntax uses it.)*)
(***************************************************************************)
EntityNames == {"amp", "lt", "gt", "quot", "#039"}

C5_NoUnescapedInput ==
    Rendered =>
        \A i \in 1..Len(html) :
            /\ html[i] \notin {"<", ">", "'"}
            /\ html[i] = "&" =>
                  /\ i + 2 <= Len(html)
                  /\ html[i + 1] \in EntityNames
                  /\ html[i + 2] = ";"

(***************************************************************************)
(* C6.  Node completeness.  The part of the fragment before the embedded   *)
(* payload, and the node elements in it.                                   *)
(***************************************************************************)
StaticPart(fragment) == SubSeq(fragment, 1, IndexOf(fragment, <<ScriptOpen>>, 1) - 1)

NodeTag(id) == <<"data-node-id=\"">> \o HtmlEscaped(id) \o <<"\" ">>

NodeClass(type) ==
    CASE type = <<"text">> -> "<div class=\"canvas-node canvas-node-text\" "
      [] type = <<"file">> -> "<div class=\"canvas-node canvas-node-file\" "
      [] type = <<"group">> -> "<div class=\"canvas-node canvas-node-group\" "
      [] type = <<"link">> -> "<div class=\"canvas-node canvas-node-link\" "

\* the content of a node's element by the rule of its type
NodeContent(node, baseUrl) ==
    LET type == Get(node, <<"type">>).s
        Field(f) == IF Get(node, f).t = "str" THEN Get(node, f).s ELSE <<>>
    IN  CASE type = <<"text">> ->
               <<"<div class=\"canvas-node-content\">">>
               \o HtmlEscaped(Field(<<"text">>)) \o <<"</div>">>
          [] type = <<"file">> ->
               <<"<a href=\"">>
               \o HtmlEscaped(resolveFileUrl(baseUrl, Field(<<"file">>)))
               \o <<"\">">> \o HtmlEscaped(Field(<<"file">>)) \o <<"</a>">>
          [] type = <<"group">> ->
               <<"<div class=\"canvas-group-label\">">>
               \o HtmlEscaped(Field(<<"label">>)) \o <<"</div>">>
               \o <<"<div class=\"canvas-group-container\"></div>">>
          [] type = <<"link">> ->
               <<"<a href=\"">> \o HtmlEscaped(Field(<<"url">>)) \o <<"\">">>
               \o HtmlEscaped(Field(<<"url">>)) \o <<"</a>">>

StartsWith(s, prefix) == Len(prefix) <= Len(s) /\ SubSeq(s, 1, Len(prefix)) = prefix

\* C6 as claimed: for every node of a rendered document exactly one element
\* of the fragment carries data-node-id equal to the node's escaped id.
C6_OneElementPerNodeId ==
    (Rendered /\ result.ok) =>
        \A i \in 1..Len(DataNodes(result.data)) :
            CountOcc(html, NodeTag(Get(DataNodes(result.data)[i], <<"id">>).s), 1) = 1

\* C6 as amended: the static part of the fragment holds exactly one node
\* element per node of the document, the k-th carrying data-node-id equal to
\* the k-th node's escaped id (an id shared by several nodes is carried by
\* as many elements) and holding the content its type prescribes.
C6_OneElementPerNode ==
    (Rendered /\ result.ok) =>
        LET nodes == DataNodes(result.data)
            static == StaticPart(html)
            opens == Positions(static, "data-node-id=\"")
            svg == IndexOf(static, <<"<svg class=\"canvas-edges\">">>, 1)
            First(k) == opens[k] - 1
            Last(k) == IF k < Len(opens) THEN opens[k + 1] - 3 ELSE svg - 4
            Element(k) == SubSeq(static, First(k), Last(k))
        IN  /\ Len(opens) = Len(nodes)
            /\ \A k \in 1..Len(nodes) :
                  /\ StartsWith(Element(k),
                                <<NodeClass(Get(nodes[k], <<"type">>).s)>>
                                \o NodeTag(Get(nodes[k], <<"id">>).s))
                  /\ EndsWith(Element(k),
                              <<"px;\">">> \o NodeContent(nodes[k], OrEmpty(cfgBaseUrl))
                              \o <<"</div>">>)

C6_Witness ==
    /\ pc = "rendered"
    /\ result.ok
    /\ Len(DataNodes(result.data)) = 2
    /\ Get(DataNodes(result.data)[1], <<"id">>) = Get(DataNodes(result.data)[2], <<"id">>)
    /\ Get(DataNodes(result.data)[1], <<"type">>).s = <<"text">>
    /\ Get(DataNodes(result.data)[2], <<"type">>).s = <<"group">>

(***************************************************************************)
(* C7.  Edge completeness: the fragment holds exactly one connector        *)
(* container; inside it there is exactly one connector per edge of the     *)
(* document, the k-th carrying the k-th edge's id and both endpoint ids;   *)
(* with no edges the container is emitted empty.                           *)
(***************************************************************************)
C7_OneConnectorPerEdge ==
    (Rendered /\ result.ok) =>
        LET edges == DataEdges(result.data)
            static == StaticPart(html)
            svgs == Positions(static, "<svg class=\"canvas-edges\">")
            ends == Positions(static, "</svg>")
            lines == Positions(static, "<line class=\"canvas-edge\" ")
            Attrs(e) == <<"<line class=\"canvas-edge\" ">>
                        \o <<"data-edge-id=\"">> \o HtmlEscaped(Get(e, <<"id">>).s)
                        \o <<"\" ", "data-from-node=\"">>
                        \o HtmlEscaped(Get(e, <<"fromNode">>).s)
                        \o <<"\" ", "data-to-node=\"">>
                        \o HtmlEscaped(Get(e, <<"toNode">>).s)
        IN  /\ Len(svgs) = 1
            /\ Len(ends) = 1
            /\ Len(lines) = Len(edges)
            /\ Len(edges) = 0 => ends[1] = svgs[1] + 1
            /\ \A k \in 1..Len(edges) :
                  /\ svgs[1] < lines[k]
                  /\ lines[k] < ends[1]
                  /\ SubSeq(static, lines[k], lines[k] + Len(Attrs(edges[k])) - 1)
                     = Attrs(edges[k])
                  /\ static[lines[k] + Len(Attrs(edges[k]))]
                        \in {"\" />", "\" data-edge-label=\""}

C7_Witness ==
    /\ pc = "rendered"
    /\ result.ok
    /\ Len(DataEdges(result.data)) = 2
    /\ Get(DataEdges(result.data)[1], <<"toNode">>).s = <<"b">>

(***************************************************************************)
(* C8.  File link resolution: the link of a file node points to baseUrl    *)
(* without its trailing slash, then "/", then the file path without a      *)
(* trailing ".md"; a baseUrl with and without the trailing slash give the  *)
(* same target; the visible label is the escaped file path, ".md" kept.    *)
(***************************************************************************)
C8_FileLinkResolution ==
    (Rendered /\ result.ok) =>
        \A i \in 1..Len(DataNodes(result.data)) :
            LET node == DataNodes(result.data)[i]
                path == IF Get(node, <<"file">>).t = "str" THEN Get(node, <<"file">>).s
                        ELSE <<>>
                base == OrEmpty(cfgBaseUrl)
                bare == IF base # <<>> /\ base[Len(base)] = "/"
                        THEN SubSeq(base, 1, Len(base) - 1) ELSE base
                page == IF Len(path) >= 3
                           /\ SubSeq(path, Len(path) - 2, Len(path)) = <<".", "m", "d">>
                        THEN SubSeq(path, 1, Len(path) - 3) ELSE path
            IN  Get(node, <<"type">>).s = <<"file">> =>
                  /\ Contains(html, <<"<a href=\"">> \o HtmlEscaped(bare \o <<"/">> \o page)
                                    \o <<"\">">> \o HtmlEscaped(path) \o <<"</a>">>)
                  /\ resolveFileUrl(bare, path) = resolveFileUrl(bare \o <<"/">>, path)

C8_Witness ==
    /\ pc = "rendered"
    /\ result.ok
    /\ cfgBaseUrl = JStr(<<"h", "/", "w", "/">>)
    /\ \E i \in 1..Len(DataNodes(result.data)) :
          /\ Get(DataNodes(result.data)[i], <<"type">>).s = <<"file">>
          /\ Get(DataNodes(result.data)[i], <<"file">>).s = <<"p", "/", "q", ".", "m", "d">>
    /\ Contains(html, <<"<a href=\"", "h", "/", "w", "/", "p", "/", "q", "\">">>)

(***************************************************************************)
(* C9.  Embedded payload: the page built from a validated document d holds *)
(* exactly one element with id canvas-data, its text content is            *)
(* serializeCanvasData(d), and JSON-parsing that text content, as          *)
(* initCanvasGraph does, recovers a document equal to d.                   *)
(***************************************************************************)
C9_PayloadRecoversDocument ==
    (pc = "loaded" /\ result.ok) =>
        /\ CountOcc(out, <<ScriptOpen>>, 1) = 1
        /\ TextContent(out, GetCanvasDataEl(out)) = serializeCanvasData(result.data)
        /\ mount.mounted
        /\ mount.canvasData = result.data

(***************************************************************************)
(* C10.  textTransform returns the source text unchanged (untrimmed)       *)
(* unless the text, trimmed, is a JSON object with array-typed nodes and   *)
(* edges; then it returns renderCanvasToHtml of the parsed document when   *)
(* the parse succeeds and renderCanvasError of the parse error when not.   *)
(***************************************************************************)
IsCanvasJson(text) ==
    LET p == SourceJson[Trim(text)]
    IN  p.ok /\ TopLevelOk(p.v)

C12_RequiredStringsNonEmpty ==
    (Built /\ result.ok) =>
        /\ \A i \in 1..Len(DataNodes(result.data)) :
              Get(DataNodes(result.data)[i], <<"id">>).s # <<>>
        /\ \A i \in 1..Len(DataEdges(result.data)) :
              \A f \in {<<"id">>, <<"fromNode">>, <<"toNode">>} :
                  Get(DataEdges(result.data)[i], f).s # <<>>

(***************************************************************************)
(* C13.  First fatal problem of the nodes: when the top level is valid and *)
(* a node is structurally invalid, the parse fails with the error of the   *)
(* invalid node of smallest index and of that node's first failing check   *)
(* in the order not-an-object, id, type (string), x, y, width, height,     *)
(* type (enum value), whatever the later nodes and the edges are.          *)
(***************************************************************************)
\* the checks of a node in their order; check c fails for raw
NodeCheckFails(raw, c) ==
    CASE c = 1 -> raw.t # "obj"
      [] c = 2 -> Get(raw, <<"id">>).t # "str"
      [] c = 3 -> Get(raw, <<"type">>).t # "str"
      [] c = 4 -> Get(raw, <<"x">>).t # "num"
      [] c = 5 -> Get(raw, <<"y">>).t # "num"
      [] c = 6 -> Get(raw, <<"width">>).t # "num"
      [] c = 7 -> Get(raw, <<"height">>).t # "num"
      [] c = 8 -> Get(raw, <<"type">>).s \notin {<<"text">>, <<"file">>, <<"link">>, <<"group">>}

\* the message of check c for the node at 0-based position index
NodeCheckMessage(raw, c, index) ==
    <<"Node at index ">> \o NumToString(Num(index)) \o
    CASE c = 1 -> <<" is not an object">>
      [] c = 2 -> <<" is missing required string field ", "\"", "id", "\"">>
      [] c = 3 -> <<" is missing required string field ", "\"", "type", "\"">>
      [] c = 4 -> <<" is missing required number field ", "\"", "x", "\"">>
      [] c = 5 -> <<" is missing required number field ", "\"", "y", "\"">>
      [] c = 6 -> <<" is missing required number field ", "\"", "width", "\"">>
      [] c = 7 -> <<" is missing required number field ", "\"", "height", "\"">>
      [] c = 8 -> <<" has invalid type ", "\"">> \o Get(raw, <<"type">>).s
                  \o <<"\"", ". Must be one of: text, file, link, group">>

\* the first check raw fails: the checks after a failing one are not made
FirstFailingCheck(raw) ==
    CHOOSE c \in 1..8 :
        /\ \A b \in 1..(c - 1) : ~NodeCheckFails(raw, b)
        /\ NodeCheckFails(raw, c)

InvalidNodes(text) ==
    {i \in 1..Len(SrcNodes(text)) : ~NodeShapeOk(SrcNodes(text)[i])}

FirstInvalidNode(text) ==
    CHOOSE i \in InvalidNodes(text) : \A j \in InvalidNodes(text) : i <= j

HasTopLevel(text) == SourceJson[text].ok /\ TopLevelOk(SourceJson[text].v)

EdgeCheckMessage(raw, index) ==
    <<"Edge at index ">> \o NumToString(Num(index)) \o
    (IF raw.t # "obj" THEN <<" is not an object">>
     ELSE IF Get(raw, <<"id">>).t # "str"
     THEN <<" is missing required string field ", "\"", "id", "\"">>
     ELSE IF Get(raw, <<"fromNode">>).t # "str"
     THEN <<" is missing required string field ", "\"", "fromNode", "\"">>
     ELSE <<" is missing required string field ", "\"", "toNode", "\"">>)

InvalidEdges(text) ==
    {i \in 1..Len(SrcEdges(text)) : ~EdgeShapeOk(SrcEdges(text)[i])}

FirstInvalidEdge(text) ==
    CHOOSE i \in InvalidEdges(text) : \A j \in InvalidEdges(text) : i <= j

FailsWithFirstInvalidEdge ==
    /\ DOMAIN result = {"ok", "error"}
    /\ ~result.ok
    /\ result.error = EdgeCheckMessage(SrcEdges(src)[FirstInvalidEdge(src)],
                                       FirstInvalidEdge(src) - 1)

Fields(obj) == {<<obj.o[i].k, obj.o[i].v>> : i \in 1..Len(obj.o)}

SchemaSides == {<<"top">>, <<"right">>, <<"bottom">>, <<"left">>}

\* what the schema keeps of a structurally valid source node or edge
KeptOfNode(raw) ==
    {<<f, Get(raw, f)>> : f \in {<<"id">>, <<"type">>, <<"x">>, <<"y">>,
                                 <<"width">>, <<"height">>}}
    \cup {<<f, Get(raw, f)>> :
            f \in {g \in {<<"text">>, <<"file">>, <<"url">>, <<"label">>, <<"color">>} :
                     Get(raw, g).t = "str"}}

KeptOfEdge(raw) ==
    {<<f, Get(raw, f)>> : f \in {<<"id">>, <<"fromNode">>, <<"toNode">>}}
    \cup {<<f, Get(raw, f)>> :
            f \in {g \in {<<"fromSide">>, <<"toSide">>} :
                     Get(raw, g).t = "str" /\ Get(raw, g).s \in SchemaSides}}
    \cup {<<f, Get(raw, f)>> :
            f \in {g \in {<<"label">>, <<"color">>} : Get(raw, g).t = "str"}}

\* the source edges whose two endpoints are ids of source nodes
SurvivingEdges(text) ==
    LET Kept(e) == /\ Get(e, <<"fromNode">>).s \in SrcNodeIds(text)
                   /\ Get(e, <<"toNode">>).s \in SrcNodeIds(text)
    IN  SelectSeq(SrcEdges(text), Kept)

C15_ToleratedFieldsOmitted ==
    (Built /\ ConformsToSchema(src)) =>
        /\ result.ok
        /\ Len(DataNodes(result.data)) = Len(SrcNodes(src))
        /\ \A i \in 1..Len(SrcNodes(src)) :
              /\ Fields(DataNodes(result.data)[i]) = KeptOfNode(SrcNodes(src)[i])
              /\ Len(DataNodes(result.data)[i].o)
                 = Cardinality(KeptOfNode(SrcNodes(src)[i]))
        /\ Len(DataEdges(result.data)) = Len(SurvivingEdges(src))
        /\ \A i \in 1..Len(SurvivingEdges(src)) :
              /\ Fields(DataEdges(result.data)[i]) = KeptOfEdge(SurvivingEdges(src)[i])
              /\ Len(DataEdges(result.data)[i].o)
                 = Cardinality(KeptOfEdge(SurvivingEdges(src)[i]))
        /\ Len(result.warnings) = Len(SrcEdges(src)) - Len(SurvivingEdges(src))

C15_Witness ==
    /\ pc = "parsed"
    /\ ConformsToSchema(src)
    /\ \E i \in 1..Len(SrcNodes(src)) :
          /\ Get(SrcNodes(src)[i], <<"text">>).t = "num"
          /\ Get(SrcNodes(src)[i], <<"color">>).t = "null"
          /\ Get(DataNodes(result.data)[i], <<"text">>) = Undefined
          /\ Get(DataNodes(result.data)[i], <<"label">>) = JStr(<<"L">>)
    /\ Len(SrcEdges(src)) = 2
    /\ Get(SrcEdges(src)[1], <<"fromSide">>).t = "num"
    /\ Get(SrcEdges(src)[2], <<"toSide">>) = JStr(<<"up">>)
    /\ Len(DataEdges(result.data)) = 2
    /\ Get(DataEdges(result.data)[1], <<"fromSide">>) = Undefined
    /\ Get(DataEdges(result.data)[1], <<"toSide">>) = JStr(<<"left">>)
    /\ Get(DataEdges(result.data)[2], <<"toSide">>) = Undefined
    /\ result.warnings = <<>>

(***************************************************************************)
(* C16.  Field stripping: a source whose nodes and edges are structurally  *)
(* valid parses whatever other keys it holds; every node and edge of a     *)
(* parsed document, and of the text serializeCanvasData makes of it,       *)
(* carries only keys of the schema, and the document and its text carry    *)
(* only nodes and edges.                                                   *)
(***************************************************************************)
Keys(obj) == {obj.o[i].k : i \in 1..Len(obj.o)}

NodeSchemaKeys ==
    {<<"id">>, <<"type">>, <<"x">>, <<"y">>, <<"width">>, <<"height">>,
     <<"text">>, <<"file">>, <<"url">>, <<"label">>, <<"color">>}

EdgeSchemaKeys ==
    {<<"id">>, <<"fromNode">>, <<"toNode">>, <<"fromSide">>, <<"toSide">>,
     <<"label">>, <<"color">>}

OnlySchemaKeys(doc) ==
    /\ Keys(doc) = {<<"nodes">>, <<"edges">>}
    /\ \A i \in 1..Len(Get(doc, <<"nodes">>).a) :
          Keys(Get(doc, <<"nodes">>).a[i]) \subseteq NodeSchemaKeys
    /\ \A i \in 1..Len(Get(doc, <<"edges">>).a) :
          Keys(Get(doc, <<"edges">>).a[i]) \subseteq EdgeSchemaKeys

Serialized == pc \notin {"start", "parsed"} /\ result.ok

C16_OnlySchemaFields ==
    /\ (Built /\ ConformsToSchema(src)) => result.ok
    /\ (Built /\ result.ok) => OnlySchemaKeys(result.data)
    /\ Serialized => (JSONparse(serialized).ok /\ OnlySchemaKeys(JSONparse(serialized).v))

C16_Witness ==
    /\ pc = "serialized"
    /\ Keys(SourceJson[src].v) = {<<"version">>, <<"nodes">>, <<"meta">>, <<"edges">>}
    /\ <<"zIndex">> \in Keys(SrcNodes(src)[1])
    /\ <<"locked">> \in Keys(SrcNodes(src)[2])
    /\ <<"weight">> \in Keys(SrcEdges(src)[1])
    /\ Len(DataEdges(result.data)) = 1
    /\ Contains(serialized, <<"color">>)
    /\ ~Contains(serialized, <<"weight">>)

(***************************************************************************)
(* C17.  Order preservation: on a successful parse the output nodes are    *)
(* the source nodes in source order, the output edges are the surviving    *)
(* source edges in source order, and the static renderer emits the node    *)
(* elements and the connectors in the order of the document.               *)
(***************************************************************************)
\* the value of the attribute whose opening atom is at position i of the
\* markup: the atoms up to the atom that closes the attribute
AttrValue(markup, i) ==
    LET closers == {j \in (i + 1)..Len(markup) :
                      markup[j] \in {"\" ", "\" />", "\" data-edge-label=\"", "\">"}}
        close == CHOOSE j \in closers : \A k \in closers : j <= k
    IN  SubSeq(markup, i + 1, close - 1)

\* the values of the attribute `open` in the markup, in markup order
AttrValues(markup, open) ==
    [k \in 1..Len(Positions(markup, open)) |->
        AttrValue(markup, Positions(markup, open)[k])]

C17_OrderPreserved ==
    /\ (Built /\ result.ok) =>
          /\ [i \in 1..Len(DataNodes(result.data)) |->
                Get(DataNodes(result.data)[i], <<"id">>)]
             = [i \in 1..Len(SrcNodes(src)) |-> Get(SrcNodes(src)[i], <<"id">>)]
          /\ [i \in 1..Len(DataNodes(result.data)) |->
                Get(DataNodes(result.data)[i], <<"type">>)]
             = [i \in 1..Len(SrcNodes(src)) |-> Get(SrcNodes(src)[i], <<"type">>)]
          /\ [i \in 1..Len(DataEdges(result.data)) |->
                Get(DataEdges(result.data)[i], <<"id">>)]
             = [i \in 1..Len(SurvivingEdges(src)) |->
                Get(SurvivingEdges(src)[i], <<"id">>)]
    /\ (Rendered /\ result.ok) =>
          /\ AttrValues(StaticPart(html), "data-node-id=\"")
             = [i \in 1..Len(DataNodes(result.data)) |->
                  HtmlEscaped(Get(DataNodes(result.data)[i], <<"id">>).s)]
          /\ AttrValues(StaticPart(html), "data-edge-id=\"")
             = [i \in 1..Len(DataEdges(result.data)) |->
                  HtmlEscaped(Get(DataEdges(result.data)[i], <<"id">>).s)]

C17_Witness ==
    /\ pc = "rendered"
    /\ result.ok
    /\ Len(SrcNodes(src)) = 2
    /\ Get(SrcNodes(src)[1], <<"id">>) # Get(SrcNodes(src)[2], <<"id">>)
    /\ Len(SrcEdges(src)) = 2
    /\ Get(SrcEdges(src)[1], <<"toNode">>) = JStr(<<"ghost">>)
    /\ Len(DataEdges(result.data)) = 1
    /\ AttrValues(StaticPart(html), "data-node-id=\"") = << <<"a">>, <<"b">> >>
    /\ AttrValues(StaticPart(html), "data-edge-id=\"") = << <<"e1">> >>

(***************************************************************************)
(* The interactive mount.                                                  *)
(***************************************************************************)
Loaded == pc = "loaded"

\* the text content of the payload element of the page
PayloadText == TextContent(out, GetCanvasDataEl(out))

\* the four ways a page can be unfit for mounting
ContainerMissing == GetContainerEl(out) = 0
PayloadMissing == GetCanvasDataEl(out) = 0
PayloadNotJson == ~PayloadMissing /\ ~JSONparse(PayloadText).ok
PayloadIllShaped == ~PayloadMissing /\ ~ReadingConforms(JSONparse(PayloadText))

\* C11: once the page is loaded, if the container is missing, the payload
\* element is missing, the payload is not valid JSON or the payload is not
\* an object whose nodes and edges are arrays of well-formed elements, the
\* mount did nothing: no exception left the handler, the static content is
\* still in place and nothing is drawn.
C11_UnfitPageIsNoOp ==
    Loaded /\ (ContainerMissing \/ PayloadMissing \/ PayloadNotJson \/ PayloadIllShaped)
        => graph = NoGraph

\* the drawn elements by what they were drawn for
IsGroupElement(e) ==
    "node" \in DOMAIN e /\ Prop(e.node, <<"type">>) = JStr(<<"group">>)
IsEdgeElement(e) == "edge" \in DOMAIN e
IsRegularNodeElement(e) ==
    "node" \in DOMAIN e /\ Prop(e.node, <<"type">>) # JStr(<<"group">>)

\* C18: in the interactive graph every element of a group node comes before
\* every element of an edge (line, arrowhead, label background, label), and
\* every element of an edge comes before every element of a node that is
\* not a group, whatever the order of the nodes in the payload.
C18_GroupsThenEdgesThenNodes ==
    Loaded =>
        \A i, j \in 1..Len(graph.scene) :
            /\ IsGroupElement(graph.scene[i]) /\ IsEdgeElement(graph.scene[j]) => i < j
            /\ IsEdgeElement(graph.scene[i]) /\ IsRegularNodeElement(graph.scene[j])
                  => i < j

\* a graph with a group listed after a regular node, two labelled edges and
\* regular nodes
C18_Witness ==
    /\ Loaded
    /\ mount.mounted
    /\ IsArray(Prop(mount.canvasData, <<"nodes">>))
    /\ LET nodes == Prop(mount.canvasData, <<"nodes">>).a
       IN  /\ Len(nodes) >= 2
           /\ Prop(nodes[1], <<"type">>) # JStr(<<"group">>)
           /\ Prop(nodes[2], <<"type">>) = JStr(<<"group">>)
    /\ \E i \in 1..Len(graph.scene) : IsGroupElement(graph.scene[i])
    /\ \E i \in 1..Len(graph.scene) : IsRegularNodeElement(graph.scene[i])
    /\ Cardinality({i \in 1..Len(graph.scene) :
                       IsEdgeElement(graph.scene[i]) /\ graph.scene[i].el = "text"}) = 2
    /\ Cardinality({i \in 1..Len(graph.scene) :
                       IsEdgeElement(graph.scene[i]) /\ graph.scene[i].el = "line"}) = 4

\* the nodes of the mounted payload, when it holds an array of nodes whose
\* four geometry fields are integers
MountedNodes == Prop(mount.canvasData, <<"nodes">>).a
NumericGeometry ==
    /\ mount.mounted
    /\ IsArray(Prop(mount.canvasData, <<"nodes">>))
    /\ \A i \in 1..Len(MountedNodes) :
          /\ MountedNodes[i].t = "obj"
          /\ \A f \in {<<"x">>, <<"y">>, <<"width">>, <<"height">>} :
                /\ Get(MountedNodes[i], f).t = "num"
                /\ Get(MountedNodes[i], f).n.inf = 0
                /\ Get(MountedNodes[i], f).n.t = 0
Geo(i, f) == Get(MountedNodes[i], f).n.i

SetMin(S) == CHOOSE m \in S : \A k \in S : m <= k
SetMax(S) == CHOOSE m \in S : \A k \in S : k <= m

\* the box of section 5: the extent of the nodes, or the fixed box
ContentBox ==
    LET I == 1..Len(MountedNodes)
    IN  IF I = {} THEN [minX |-> 0, minY |-> 0, maxX |-> 800, maxY |-> 600]
        ELSE [minX |-> SetMin({Geo(i, <<"x">>) : i \in I}),
              minY |-> SetMin({Geo(i, <<"y">>) : i \in I}),
              maxX |-> SetMax({Geo(i, <<"x">>) + Geo(i, <<"width">>) : i \in I}),
              maxY |-> SetMax({Geo(i, <<"y">>) + Geo(i, <<"height">>) : i \in I})]

\* the viewport the claim gives for a box
Viewport(box) ==
    [x |-> box.minX - 50, y |-> box.minY - 50,
     width |-> box.maxX - box.minX + 100, height |-> box.maxY - box.minY + 100]

\* whether the rectangle of node i, given by two opposite corners, lies
\* inside viewport v
InsideViewport(i, v) ==
    /\ \A cx \in {Geo(i, <<"x">>), Geo(i, <<"x">>) + Geo(i, <<"width">>)} :
          v.x <= cx /\ cx <= v.x + v.width
    /\ \A cy \in {Geo(i, <<"y">>), Geo(i, <<"y">>) + Geo(i, <<"height">>)} :
          v.y <= cy /\ cy <= v.y + v.height

\* C19: when the graph of a payload with numeric node geometry is drawn, the
\* viewBox of the svg is "minX-50 minY-50 maxX-minX+100 maxY-minY+100" for
\* the box (min x, min y, max x+width, max y+height) over all nodes, or for
\* the box (0, 0, 800, 600) when there is no node; and every node whose
\* width and height are not negative lies inside that viewport.
C19_ViewportPadsContentBox ==
    Loaded /\ NumericGeometry /\ graph.cleared =>
        LET v == Viewport(ContentBox)
        IN  /\ graph.viewBox =
                  NumToString(Num(v.x)) \o <<" ">> \o NumToString(Num(v.y)) \o <<" ">>
                  \o NumToString(Num(v.width)) \o <<" ">> \o NumToString(Num(v.height))
            /\ \A i \in 1..Len(MountedNodes) :
                  Geo(i, <<"width">>) >= 0 /\ Geo(i, <<"height">>) >= 0
                      => InsideViewport(i, v)

\* three nodes of which the group reaches furthest left, up, right and down
C19_Witness ==
    /\ Loaded /\ NumericGeometry /\ graph.cleared
    /\ Len(MountedNodes) = 3
    /\ graph.viewBox = <<"-", "5", "5", " ", "-", "5", "5", " ",
                         "1", "4", "1", " ", "1", "2", "0">>

\* the positions of the arrowheads in the drawn graph; the element before
\* an arrowhead is the line of its edge
Arrowheads == {i \in 1..Len(graph.scene) : graph.scene[i].el = "polygon"}

FarApart(p, q) ==
    \/ ~SquaresToZero(NSub(p.x2, q.x2))
    \/ ~SquaresToZero(NSub(p.y2, q.y2))

Wrapped == tspans # <<>>

\* node.width - 16
UsableWidth == NSub(Coord(wrapNode, <<"width">>), Num(16))

\* the measured width of line k
LineWidth(k) == Num(getComputedTextLength(wrapFont, tspans[k].text))

\* the number of words line k holds
WordsOfLine(k) == CountOcc(tspans[k].text, <<" ">>, 1) + 1

\* C21: in the lines wrapText produced, every line that holds more than one
\* word is no wider than the node's width less 16; a line that is wider
\* holds a single word.
C21_MultiWordLinesFit ==
    Wrapped =>
        \A k \in 1..Len(tspans) :
            /\ WordsOfLine(k) > 1 => NLeq(LineWidth(k), UsableWidth)
            /\ NGt(LineWidth(k), UsableWidth) => WordsOfLine(k) = 1

C21_Witness ==
    /\ Wrapped
    /\ Len(tspans) = 2
    /\ WordsOfLine(1) = 2 /\ NLeq(LineWidth(1), UsableWidth)
    /\ WordsOfLine(2) = 1 /\ NGt(LineWidth(2), UsableWidth)

(***************************************************************************)
(* C22.  Interactivity of the drawn scene.                                 *)
(***************************************************************************)
\* the mount ran to its end and built the scene
SceneBuilt == pc \in {"loaded", "clicked"} /\ graph.cleared /\ ~graph.threw

\* element e is drawn inside something that listens to the pointer
Listens(e) == "on" \in DOMAIN e \/ "cursor" \in DOMAIN e

IsNodeOfType(e, type) == e.layer = "node" /\ Prop(e.node, <<"type">>) = JStr(type)

\* a click on e assigns the page's location the site URL that the static
\* renderer's rule gives for path
ClickNavigatesTo(e, path) ==
    /\ "on" \in DOMAIN e /\ e.cursor = "pointer"
    /\ e.on.click = [do |-> "location.href", url |-> resolveFileUrl(mountBaseUrl, path)]

\* a click on e opens url in a new browsing context
ClickOpens(e, url) ==
    /\ "on" \in DOMAIN e /\ e.cursor = "pointer"
    /\ e.on.click = [do |-> "window.open", url |-> url, target |-> "_blank"]

\* C22 as claimed: in a scene the mount built, every file node is drawn
\* pointer-clickable and a click navigates to the site URL of its file path,
\* every link node is drawn pointer-clickable and a click opens its url in a
\* new context, and nothing else listens to the pointer.
C22_FileAndLinkNodesClickable ==
    SceneBuilt =>
        \A i \in 1..Len(graph.scene) :
            LET e == graph.scene[i]
            IN  IF IsNodeOfType(e, <<"file">>)
                THEN ClickNavigatesTo(e, OrEmpty(Prop(e.node, <<"file">>)))
                ELSE IF IsNodeOfType(e, <<"link">>)
                THEN ClickOpens(e, Prop(e.node, <<"url">>))
                ELSE ~Listens(e)

\* C22 as amended: in a scene the mount built, every file node with a
\* non-empty file is drawn pointer-clickable and a click navigates to the
\* site URL of its file path, every link node with a non-empty url is drawn
\* pointer-clickable and a click opens that url in a new context, and
\* nothing else listens to the pointer: no file node without a file, no
\* link node without a url, no text node, no group and no edge.  What a
\* click did is what the listener of a drawn file or link node does.
C22_NodesWithTargetClickable ==
    /\ SceneBuilt =>
        \A i \in 1..Len(graph.scene) :
            LET e == graph.scene[i]
            IN  IF IsNodeOfType(e, <<"file">>) /\ Truthy(Prop(e.node, <<"file">>))
                THEN ClickNavigatesTo(e, Prop(e.node, <<"file">>).s)
                ELSE IF IsNodeOfType(e, <<"link">>) /\ Truthy(Prop(e.node, <<"url">>))
                THEN ClickOpens(e, Prop(e.node, <<"url">>))
                ELSE ~Listens(e)
    /\ pc = "clicked" =>
        \E i \in 1..Len(graph.scene) :
            /\ IsNodeOfType(graph.scene[i], <<"file">>) \/ IsNodeOfType(graph.scene[i], <<"link">>)
            /\ "on" \in DOMAIN graph.scene[i]
            /\ clicked = graph.scene[i].on.click

C22_Witness ==
    /\ pc = "clicked"
    /\ SceneBuilt
    /\ mountBaseUrl = <<"m", "/">>
    /\ clicked = [do |-> "location.href", url |-> <<"m", "/", "p", "/", "q">>]
    /\ \E i \in 1..Len(graph.scene) : IsNodeOfType(graph.scene[i], <<"file">>)
                                       /\ ~Listens(graph.scene[i])
    /\ \E i \in 1..Len(graph.scene) : IsNodeOfType(graph.scene[i], <<"link">>)
                                       /\ ~Listens(graph.scene[i])

(***************************************************************************)
(* C23.  The label attribute of a static connector.                        *)
(***************************************************************************)
\* the markup of the k-th connector of the fragment, from its opening chunk
\* to the chunk that closes it
Connector(k) ==
    LET static == StaticPart(html)
        start == Positions(static, "<line class=\"canvas-edge\" ")[k]
        closes == {j \in start..Len(static) : static[j] = "\" />"}
    IN  SubSeq(static, start, CHOOSE j \in closes : \A i \in closes : j <= i)

\* the connector ends in a label attribute that holds the escaped label
CarriesLabel(connector, label) ==
    LET n == Len(HtmlEscaped(label))
    IN  /\ Len(connector) > n + 2
        /\ connector[Len(connector) - n - 1] = "\" data-edge-label=\""
        /\ SubSeq(connector, Len(connector) - n, Len(connector) - 1) = HtmlEscaped(label)
        /\ CountOcc(connector, <<"\" data-edge-label=\"">>, 1) = 1

CarriesNoLabel(connector) == ~Contains(connector, <<"\" data-edge-label=\"">>)

\* C23 as claimed: the connector of every edge of a validated document
\* carries data-edge-label with the escaped label when the edge has a label
\* field, and no label attribute when it has none.
C23_LabelAttributeIffLabelField ==
    (Rendered /\ result.ok) =>
        \A k \in 1..Len(DataEdges(result.data)) :
            LET edge == DataEdges(result.data)[k]
            IN  IF HasKey(edge.o, <<"label">>)
                THEN CarriesLabel(Connector(k), Get(edge, <<"label">>).s)
                ELSE CarriesNoLabel(Connector(k))

\* C23 as amended: the connector of every edge of a validated document
\* carries data-edge-label with the escaped label when the edge has a label
\* that is not the empty string, and no label attribute when the label is
\* empty or the field is absent.
C23_LabelAttributeIffLabelNonEmpty ==
    (Rendered /\ result.ok) =>
        \A k \in 1..Len(DataEdges(result.data)) :
            LET edge == DataEdges(result.data)[k]
            IN  IF HasKey(edge.o, <<"label">>) /\ Get(edge, <<"label">>).s # <<>>
                THEN CarriesLabel(Connector(k), Get(edge, <<"label">>).s)
                ELSE CarriesNoLabel(Connector(k))

C23_Witness ==
    /\ pc = "rendered" /\ result.ok
    /\ Len(DataEdges(result.data)) = 2
    /\ Get(DataEdges(result.data)[1], <<"label">>) = JStr(<<"go", "<">>)
    /\ CarriesLabel(Connector(1), <<"go", "<">>)
    /\ Contains(Connector(1), <<"go", "&", "lt", ";">>)
    /\ ~HasKey(DataEdges(result.data)[2].o, <<"label">>)
    /\ CarriesNoLabel(Connector(2))

(***************************************************************************)
(* C24.  Dangling edges and their warnings leave no trace in the HTML.     *)
(***************************************************************************)
\* a JSON text of value v that reads back as v: an infinite number is
\* written as it can be written in a source, beyond the range of a double
RECURSIVE JsonText(_)
JsonText(v) ==
    CASE v.t = "num" /\ v.n.inf # 0 ->
            (IF v.n.inf < 0 THEN <<"-">> ELSE <<>>) \o <<"1", "e", "9", "9", "9">>
      [] v.t = "arr" ->
            <<"[">> \o Join([i \in 1..Len(v.a) |-> JsonText(v.a[i])], <<",">>) \o <<"]">>
      [] v.t = "obj" ->
            <<"{">>
            \o Join([i \in 1..Len(v.o) |->
                       QuoteString(v.o[i].k) \o <<":">> \o JsonText(v.o[i].v)], <<",">>)
            \o <<"}">>
      [] OTHER -> JSONstringify(v)

\* the source edges of a conforming text whose two endpoints are node ids
SurvivingSrcEdges(text) ==
    LET Kept(e) == /\ Get(e, <<"fromNode">>).s \in SrcNodeIds(text)
                   /\ Get(e, <<"toNode">>).s \in SrcNodeIds(text)
    IN  SelectSeq(SrcEdges(text), Kept)

ConformingSources == {t \in Sources : ConformsToSchema(t)}

\* the conforming sources with a dangling edge
DanglingSources == {t \in ConformingSources : SurvivingSrcEdges(t) # SrcEdges(t)}

\* each of them with its dangling edges removed, and what the parser makes
\* of that text
PrunedSource ==
    [t \in DanglingSources |->
        JsonText(JObj(ObjSet(SourceJson[t].v.o, <<"edges">>, JArr(SurvivingSrcEdges(t)))))]

PrunedDoc == [t \in DanglingSources |-> parseCanvasData(PrunedSource[t])]

\* no warning of the parse, raw or escaped, occurs in markup
NoWarningText(markup) ==
    /\ ~Contains(markup, <<" references non-existent ">>)
    /\ \A i \in 1..Len(result.warnings) :
          /\ ~Contains(markup, result.warnings[i].message)
          /\ ~Contains(markup, HtmlEscaped(result.warnings[i].message))

\* C24: for a source whose nodes and edges are all structurally valid, the
\* HTML of parse-then-render and the HTML of textTransform are the HTML
\* produced for the source with its dangling edges removed; the fragment
\* holds one element per source node and one connector per surviving
\* source edge, in order, and no warning text.
C24_DanglingEdgesLeaveNoTrace ==
    /\ (Rendered /\ ConformsToSchema(src)) =>
          LET static == StaticPart(html)
              nodeAt == Positions(static, "data-node-id=\"")
              edgeAt == Positions(static, "data-edge-id=\"")
              kept == SurvivingSrcEdges(src)
          IN  /\ result.ok
              /\ src \in DanglingSources =>
                    /\ PrunedDoc[src].ok
                    /\ html = renderCanvasToHtml(PrunedDoc[src].data, OrEmpty(cfgBaseUrl))
              /\ Len(nodeAt) = Len(SrcNodes(src))
              /\ \A k \in 1..Len(nodeAt) :
                    AttrValue(static, nodeAt[k])
                    = HtmlEscaped(Get(SrcNodes(src)[k], <<"id">>).s)
              /\ Len(edgeAt) = Len(kept)
              /\ \A k \in 1..Len(edgeAt) :
                    AttrValue(static, edgeAt[k]) = HtmlEscaped(Get(kept[k], <<"id">>).s)
              /\ NoWarningText(html)
    /\ (Transformed /\ ConformsToSchema(src)) =>
          /\ src \in DanglingSources => out = textTransform(cfgBaseUrl, PrunedSource[src])
          /\ NoWarningText(out)

C24_Witness ==
    /\ pc = "transformed"
    /\ ConformsToSchema(src)
    /\ Len(SrcEdges(src)) = 2
    /\ Len(result.warnings) = 1
    /\ src \in DanglingSources
    /\ PrunedSource[src] # src
    /\ Len(DataEdges(PrunedDoc[src].data)) = 1
    /\ out = html
    /\ Contains(out, <<"e1">>)
    /\ ~Contains(out, <<"ghost">>)

(***************************************************************************)
(* C26.  Warning accounting.                                               *)
(***************************************************************************)
\* the source edges of a text with an endpoint that is no node id
DroppedSrcEdges(text) ==
    LET Dangling(e) == \/ Get(e, <<"fromNode">>).s \notin SrcNodeIds(text)
                       \/ Get(e, <<"toNode">>).s \notin SrcNodeIds(text)
    IN  SelectSeq(SrcEdges(text), Dangling)

\* the endpoint field a warning about edge e names
NamedEndpoint(e, text) ==
    IF Get(e, <<"fromNode">>).s \notin SrcNodeIds(text) THEN <<"fromNode">> ELSE <<"toNode">>

\* C26: on every successful parse the output edges and the warnings add up
\* to the source edges; there is one warning per dropped edge, in source
\* order, naming the edge's id and its fromNode when that is missing (also
\* when both endpoints are missing) and otherwise its toNode.
C26_OneWarningPerDroppedEdge ==
    (Built /\ result.ok) =>
        LET dropped == DroppedSrcEdges(src)
        IN  /\ Len(DataEdges(result.data)) + Len(result.warnings) = Len(SrcEdges(src))
            /\ Len(result.warnings) = Len(dropped)
            /\ \A i \in 1..Len(dropped) :
                  LET f == NamedEndpoint(dropped[i], src)
                      g == IF f = <<"fromNode">> THEN <<"toNode">> ELSE <<"fromNode">>
                      m == result.warnings[i].message
                  IN  /\ Contains(m, <<"Edge ">> \o Quoted(Get(dropped[i], <<"id">>).s))
                      /\ Contains(m, f \o <<" ">> \o Quoted(Get(dropped[i], f).s))
                      /\ ~Contains(m, g)

C26_Witness ==
    /\ pc = "parsed" /\ result.ok
    /\ Len(SrcEdges(src)) = 2
    /\ Len(result.warnings) = 2
    /\ Get(SrcEdges(src)[1], <<"fromNode">>).s \notin SrcNodeIds(src)
    /\ Get(SrcEdges(src)[1], <<"toNode">>).s \notin SrcNodeIds(src)
    /\ Contains(result.warnings[1].message, <<"fromNode", " ", "\"", "nobody", "\"">>)
    /\ Contains(result.warnings[2].message, <<"toNode", " ", "\"", "ghost", "\"">>)

(***************************************************************************)
(* C27.  The static fallback and the outcome of the mount.                 *)
(***************************************************************************)
PageLoaded == pc \in {"loaded", "clicked"}

\* C27: once the page is loaded, the static content of the container has
\* been cleared only if the mount ran to its end: a mount that returned
\* early or threw left the static content in place.
C27_FallbackClearedOnlyWhenSceneBuilt ==
    PageLoaded => (graph.cleared => ~graph.threw)

(***************************************************************************)
(* C28.  The failure path from textTransform to the page load.             *)
(***************************************************************************)
\* what the parser makes of each source text, trimmed
\* what parseCanvasData makes of the trimmed source: the result of the
\* parse of the source where trimming removes nothing
TrimmedResult ==
    IF Trim(src) = src THEN result ELSE parseCanvasData(Trim(src))

\* C28: when textTransform detects canvas JSON whose parse fails, its
\* output is the error block alone, without payload element and without
\* graph container; the mount on that page recovers nothing, draws nothing
\* and clears nothing.  When the parse succeeds the output holds the graph
\* container and the payload element.
C28_ErrorPageIsNotMounted ==
    /\ (Transformed /\ IsCanvasJson(src) /\ ~TrimmedResult.ok) =>
          /\ out = <<"<div class=\"canvas-error\">", "<p class=\"canvas-error-message\">">>
                   \o HtmlEscaped(TrimmedResult.error) \o <<"</p>", "</div>">>
          /\ GetCanvasDataEl(out) = 0
          /\ GetContainerEl(out) = 0
          /\ PageLoaded => (~mount.mounted /\ graph = NoGraph /\ clicked = None)
    /\ (Transformed /\ IsCanvasJson(src) /\ TrimmedResult.ok) =>
          /\ CountOcc(out, <<ContainerOpen>>, 1) = 1
          /\ CountOcc(out, <<ScriptOpen>>, 1) = 1
          /\ GetContainerEl(out) < GetCanvasDataEl(out)

C28_Witness ==
    /\ pc = "loaded"
    /\ IsCanvasJson(src)
    /\ ~TrimmedResult.ok
    /\ Contains(out, <<"Node at index ", "1">>)
    /\ graph = NoGraph

(***************************************************************************)
(* C29.  Wrapping loses nothing.  The words of a text are its maximal runs *)
(* of characters that are not white space.                                 *)
(***************************************************************************)
WordsOf(text) ==
    LET NonEmpty(piece) == piece # <<>>
    IN  SelectSeq(SplitWhitespace(text), NonEmpty)

\* C29: the words of the lines wrapText produced, taken line after line,
\* are the words of the label in their order; every line holds at least
\* one word; and the first line is raised by half a line height for every
\* line after it.
C29_WrappingLosesNothing ==
    Wrapped =>
        /\ Flatten([k \in 1..Len(tspans) |-> WordsOf(tspans[k].text)]) = WordsOf(wrapLabel)
        /\ \A k \in 1..Len(tspans) : WordsOf(tspans[k].text) # <<>>
        /\ tspans[1].dy = -(((Len(tspans) - 1) * lineHeight) \div 2)

\* a text the transformer takes for a canvas file
RecognizedAsCanvas(text) ==
    LET trimmed == Trim(text)
        raw == JSONparse(trimmed)
    IN  /\ trimmed # <<>> /\ Head(trimmed) = "{"
        /\ raw.ok
        /\ Typeof(raw.v) = "object" /\ raw.v # JNull
        /\ IsArray(Get(raw.v, <<"nodes">>)) /\ IsArray(Get(raw.v, <<"edges">>))

\* C30: the transformer applied to its own output, under any configured
\* base URL, returns that output; and what it wrote for a canvas file (a
\* fragment or an error block) is not taken for a canvas file again.
C30_TextTransformIdempotent ==
    Transformed =>
        /\ \A b \in BaseUrls : textTransform(b, out) = out
        /\ out # src => ~RecognizedAsCanvas(out)

\* a canvas file whose node id and text are canvas documents was rendered,
\* and the transformer returns the fragment when it is given it again
C30_Witness ==
    /\ Transformed
    /\ src \in {SrcDoc(<<NodeJson>>, <<>>), SrcDoc(<<NodeB, NodeJson>>, <<EdgeJsonGhost>>)}
    /\ out # src
    /\ result.ok
    /\ textTransform(cfgBaseUrl, out) = out

\* what each function returns when it is called on its own
AloneParse == [t \in BuildSources |-> parseCanvasData(t)]
AloneRender ==
    [t \in {u \in BuildSources : AloneParse[u].ok} |->
        [b \in BuildBaseUrls |-> renderCanvasToHtml(AloneParse[t].data, OrEmpty(b))]]
AloneSerialize ==
    [t \in {u \in BuildSources : AloneParse[u].ok} |->
        serializeCanvasData(AloneParse[t].data)]
AloneError ==
    [t \in {u \in BuildSources : ~AloneParse[u].ok} |->
        renderCanvasError(AloneParse[t].error)]
AloneTransform ==
    [t \in BuildSources |-> [b \in BuildBaseUrls |-> textTransform(b, t)]]

====
